---------------------------- MODULE Spec2Model ----------------------------
(***************************************************************************)
(* A model of PyVM, a user-space emulator of 32-bit x86 code:              *)
(*   VM/__init__.py   the mnemonic dispatchers _mov .. _add, interrupt     *)
(*   VM/internals.py  the instruction primitives (mov, jmp, add/sub)       *)
(*   VM/kernel.py     the syscall handlers (SyscallsMixin)                 *)
(* The register file, the memory, the stack helpers, process_ModRM and the *)
(* fetch loop live in modules that are not part of the sources at hand;    *)
(* they are modelled from the specification and marked as such below.      *)
(***************************************************************************)
EXTENDS Integers, Sequences, FiniteSets, TLC

(***************************************************************************)
(* Bounds of the model.                                                    *)
(***************************************************************************)
MemSize == 24        \* bytes of guest memory (the memsize given to VM())
GdtSize == 3         \* slots of the GDT, the reserved slot 0 among them
MaxSteps == 3        \* opcodes fetched in one run of the fetch loop
ImageLen == 12       \* bytes of the loaded image: code_segment_end after the load

(***************************************************************************)
(* Python integers.  TLC's integers are 32 bits wide, while the code works *)
(* on unbounded Python integers that reach 2^33, so a Python integer n is  *)
(* held as the pair <<hi, lo>> with n = hi * 2^16 + lo and 0 <= lo < 2^16. *)
(***************************************************************************)
Limb == 256 * 256

WNorm(h, l) == <<h + (l \div Limb), l % Limb>>

W(n) == WNorm(0, n)

WAdd(x, y) == WNorm(x[1] + y[1], x[2] + y[2])

WSub(x, y) == WNorm(x[1] - y[1], x[2] - y[2])

WLess(x, y) == x[1] < y[1] \/ (x[1] = y[1] /\ x[2] < y[2])

\* The value as a TLC integer where it matters (an address, the new EIP):
\* every value outside [0, 2^16) is outside memory, and is kept as such.
WClamp(x) == IF x[1] = 0 THEN x[2] ELSE IF x[1] < 0 THEN -1 ELSE Limb

RECURSIVE BitAnd(_, _)
BitAnd(a, b) ==
    IF a = 0 \/ b = 0 THEN 0
    ELSE (a % 2) * (b % 2) + 2 * BitAnd(a \div 2, b \div 2)

\* x & m for a mask m >= 0 (Python's & on two's complement integers).
WAnd(x, m) == <<BitAnd(x[1] % Limb, m[1]), BitAnd(x[2], m[2])>>

(***************************************************************************)
(* util.py                                                                 *)
(***************************************************************************)
\* 2^(8 * n) for n in {1, 2, 4}
WPow256(n) == CASE n = 1 -> <<0, 256>> [] n = 2 -> <<1, 0>> [] n = 4 -> <<Limb, 0>>

\* int.from_bytes(data, 'little', signed=signed)
to_int(data, signed) ==
    LET n == Len(data)
        b(i) == IF i <= n THEN data[i] ELSE 0
        u == <<b(3) + 256 * b(4), b(1) + 256 * b(2)>>
    IN  IF signed /\ n > 0 /\ data[n] >= 128 THEN WSub(u, WPow256(n)) ELSE u

\* int.to_bytes(n, 'little') of an unsigned value: OverflowError outside
\* [0, 2^(8n)), which the callers see as CanToBytes being false.
CanToBytes(x, n) == ~WLess(x, <<0, 0>>) /\ WLess(x, WPow256(n))

to_bytes(x, n) ==
    SubSeq(<<x[2] % 256, x[2] \div 256, x[1] % 256, (x[1] \div 256) % 256>>, 1, n)

(***************************************************************************)
(* State.                                                                  *)
(***************************************************************************)
VARIABLES
    eip,              \* VM.eip: offset of the next byte to decode
    reg,              \* VM.reg: 8 general-purpose slots of 4 bytes, little endian
    mem,              \* VM.mem: the flat byte store
    current_mode,     \* VM.current_mode: 0 = 32-bit, 1 = 16-bit
    running,          \* VM.running
    descriptors,      \* VM.descriptors: the streams, "None" for a free slot
    program_break,    \* VM.mem.program_break
    code_segment_end, \* VM.code_segment_end
    RETCODE,          \* VM.RETCODE: <<>> until sys_exit records the exit code
    fs,               \* the host's file system: the paths that exist
    out,              \* what the host was asked to write: <<fd, bytes>>
    GDT,              \* VM.GDT: the segment descriptors, slot 0 reserved
    seek,             \* the host's file offset after the last os.lseek it served
    pc,               \* position in the fetch loop, or "kernel" / "internals"
    op,               \* the opcode byte last fetched
    entry,            \* the machine as the last dispatcher, primitive or handler found it
    ret,              \* what it returned: "true", "false", "raise", "none"
    call,             \* which one it was, with its arguments
    steps,            \* opcodes fetched so far
    hist,             \* the opcodes fetched: the byte, the registers then, who took it
    accesses          \* the mem.get and mem.set calls of the last call, in order

vars == <<eip, reg, mem, current_mode, running, descriptors, program_break,
          code_segment_end, RETCODE, fs, out, GDT, seek, pc, op, entry, ret, call,
          steps, hist, accesses>>

Byte == 0..255

EAX == 0
ECX == 1
EDX == 2
EBX == 3
ESP == 4
ESI == 6
EDI == 7

\* self.sizes[self.current_mode]
sizes(mode) == IF mode = 0 THEN 4 ELSE 2

\* The VM object the dispatchers and the syscall handlers work on; fault is
\* set once a Python exception was raised (an access outside the memory, an
\* overflowing conversion, a host error nobody caught).
Self ==
    [eip |-> eip, reg |-> reg, mem |-> mem, fault |-> FALSE, running |-> running,
     descriptors |-> descriptors, program_break |-> program_break,
     RETCODE |-> RETCODE, fs |-> fs, out |-> out, GDT |-> GDT, seek |-> seek,
     log |-> <<>>]

(***************************************************************************)
(* Register file and memory (CPU.py, not among the sources: modelled from  *)
(* the specification, section 3: x86 sub-register aliasing).               *)
(***************************************************************************)
reg_get(r, i, size) ==
    CASE size = 4 -> r[i]
      [] size = 2 -> SubSeq(r[i], 1, 2)
      [] size = 1 -> IF i < 4 THEN <<r[i][1]>> ELSE <<r[i - 4][2]>>

reg_set(r, i, data) ==
    CASE Len(data) = 4 -> [r EXCEPT ![i] = data]
      [] Len(data) = 2 -> [r EXCEPT ![i] = <<data[1], data[2], @[3], @[4]>>]
      [] Len(data) = 1 ->
            IF i < 4 THEN [r EXCEPT ![i] = <<data[1], @[2], @[3], @[4]>>]
            ELSE [r EXCEPT ![i - 4] = <<@[1], data[1], @[3], @[4]>>]

InMem(a, n) == a >= 0 /\ a + n <= MemSize

mem_get(m, a, n) == [i \in 1..n |-> m[a + i - 1]]

mem_set(m, a, data) ==
    [x \in DOMAIN m |->
        IF x >= a /\ x < a + Len(data) THEN data[x - a + 1] ELSE m[x]]

\* One call of mem.get or mem.set as the log keeps it: the address, the
\* number of bytes, and EIP when it was made.
Access(c, kind, a, n) == [kind |-> kind, at |-> a, n |-> n, eip |-> c.eip]

\* c.mem.get(a, n) with the bounds check; the bytes read are Get(c, a, n).
Touch(c, a, n) ==
    IF c.fault \/ ~InMem(a, n) THEN [c EXCEPT !.fault = TRUE]
    ELSE [c EXCEPT !.log = Append(@, Access(c, "get", a, n))]

Get(c, a, n) == IF InMem(a, n) THEN mem_get(c.mem, a, n) ELSE [i \in 1..n |-> 0]

Store(c, a, data) ==
    IF c.fault \/ ~InMem(a, Len(data)) THEN [c EXCEPT !.fault = TRUE]
    ELSE [c EXCEPT !.mem = mem_set(c.mem, a, data),
                   !.log = Append(@, Access(c, "set", a, Len(data)))]

SetReg(c, i, data) ==
    IF c.fault THEN c ELSE [c EXCEPT !.reg = reg_set(c.reg, i, data)]

Advance(c, n) == IF c.fault THEN c ELSE [c EXCEPT !.eip = c.eip + n]

\* push: the value goes to [ESP - width], then ESP is lowered by width.
stack_push(c, data) ==
    LET new_esp == WSub(to_int(reg_get(c.reg, ESP, 4), FALSE), W(Len(data)))
    IN  IF ~CanToBytes(new_esp, 4) THEN [c EXCEPT !.fault = TRUE]
        ELSE SetReg(Store(c, WClamp(new_esp), data), ESP, to_bytes(new_esp, 4))

\* pop: the value is read at [ESP], then ESP is raised by size.
stack_pop_data(c, size) == Get(c, WClamp(to_int(reg_get(c.reg, ESP, 4), FALSE)), size)

stack_pop(c, size) ==
    LET old_esp == to_int(reg_get(c.reg, ESP, 4), FALSE)
        new_esp == WAdd(old_esp, W(size))
    IN  IF ~CanToBytes(new_esp, 4) THEN [c EXCEPT !.fault = TRUE]
        ELSE SetReg(Touch(c, WClamp(old_esp), size), ESP, to_bytes(new_esp, 4))


(***************************************************************************)
(* misc.process_ModRM (not among the sources: modelled from the            *)
(* specification, section 4.1).  One ModRM byte is consumed at EIP, then   *)
(* the SIB byte and the displacement the addressing form asks for.         *)
(*   RM = [type, loc, size]: type FALSE = register loc, TRUE = memory at   *)
(*        the effective address loc;                                       *)
(*   R  = [num, size]: the reg field (the code's R[1] and R[2]).           *)
(***************************************************************************)
WScale(x, k) == WNorm(x[1] * k, x[2] * k)

process_ModRM(c, size_rm, size_r) ==
    LET ModRM == Get(c, c.eip, 1)[1]
        RMf == ModRM % 8
        REG == (ModRM \div 8) % 8
        MOD == ModRM \div 64
        c1 == Advance(Touch(c, c.eip, 1), 1)
        hasSIB == MOD # 3 /\ RMf = 4
        SIB == Get(c1, c1.eip, 1)[1]
        c2 == IF hasSIB THEN Advance(Touch(c1, c1.eip, 1), 1) ELSE c1
        baseNo == IF hasSIB THEN SIB % 8 ELSE RMf
        indexNo == (SIB \div 8) % 8
        scale == CASE SIB \div 64 = 0 -> 1 [] SIB \div 64 = 1 -> 2
                   [] SIB \div 64 = 2 -> 4 [] SIB \div 64 = 3 -> 8
        noBase == MOD = 0 /\ baseNo = 5
        index == IF hasSIB /\ indexNo # 4
                 THEN WScale(to_int(reg_get(c.reg, indexNo, 4), FALSE), scale)
                 ELSE <<0, 0>>
        base == IF noBase THEN <<0, 0>> ELSE to_int(reg_get(c.reg, baseNo, 4), FALSE)
        dispSz == CASE MOD = 1 -> 1 [] MOD = 2 -> 4 [] noBase -> 4 [] OTHER -> 0
        disp == IF dispSz = 0 THEN <<0, 0>>
                ELSE to_int(Get(c2, c2.eip, dispSz), ~noBase)
        c3 == IF dispSz = 0 THEN c2 ELSE Advance(Touch(c2, c2.eip, dispSz), dispSz)
        addr == WClamp(WAdd(WAdd(base, index), disp))
    IN  IF MOD = 3
        THEN [c |-> c1, RM |-> [type |-> FALSE, loc |-> RMf, size |-> size_rm],
              R |-> [num |-> REG, size |-> size_r]]
        ELSE [c |-> c3, RM |-> [type |-> TRUE, loc |-> addr, size |-> size_rm],
              R |-> [num |-> REG, size |-> size_r]]

\* The value of an RM operand, and a store to it.
rm_get(c, RM) == IF RM.type THEN Get(c, RM.loc, RM.size) ELSE reg_get(c.reg, RM.loc, RM.size)

rm_touch(c, RM) == IF RM.type THEN Touch(c, RM.loc, RM.size) ELSE c

rm_set(c, RM, data) == IF RM.type THEN Store(c, RM.loc, data) ELSE SetReg(c, RM.loc, data)

\* What a dispatcher or a primitive hands back: its return value and the
\* state it leaves; an exception on the way is the return value "raise".
Result(r, c) == [ret |-> IF c.fault THEN "raise" ELSE r, c |-> c]

Raise(c) == [ret |-> "raise", c |-> c]

(***************************************************************************)
(* internals.py: MOV                                                       *)
(***************************************************************************)
_VM__mov_r_imm(c, off, opc) ==
    LET imm == Get(c, c.eip, off)
    IN  SetReg(Advance(Touch(c, c.eip, off), off), opc % 8, imm)

_VM__mov_rm_imm(c, off) ==
    LET d == process_ModRM(c, off, off)
        imm == Get(d.c, d.c.eip, off)
        c1 == Advance(Touch(d.c, d.c.eip, off), off)
    IN  IF d.R.num # 0 THEN Result("false", d.c)
        ELSE Result("true", rm_set(c1, d.RM, imm))

_VM__mov_rm_r(c, off) ==
    LET d == process_ModRM(c, off, off)
        data == reg_get(d.c.reg, d.R.num, d.R.size)
    IN  rm_set(d.c, d.RM, data)

\* A load that reads its memory operand twice.
_VM__mov_r_rm_LoadsTwice(c, off) ==
    LET d == process_ModRM(c, off, off)
        data == rm_get(d.c, d.RM)
    IN  SetReg(rm_touch(rm_touch(d.c, d.RM), d.RM), d.R.num, data)

_VM__mov_r_rm(c, off) ==
    LET d == process_ModRM(c, off, off)
        data == rm_get(d.c, d.RM)
    IN  SetReg(rm_touch(d.c, d.RM), d.R.num, data)

(***************************************************************************)
(* internals.py: JMP                                                       *)
(***************************************************************************)
\* A jump that reads its displacement as an unsigned value.
_VM__jmp_rel_Unsigned(c, off) ==
    LET d == to_int(Get(c, c.eip, off), FALSE)
        c1 == Advance(Touch(c, c.eip, off), off)
    IN  IF c1.fault THEN c1
        ELSE [c1 EXCEPT !.eip = WClamp(WAdd(W(c1.eip), d))]

_VM__jmp_rel(c, off) ==
    LET d == to_int(Get(c, c.eip, off), TRUE)
        c1 == Advance(Touch(c, c.eip, off), off)
    IN  IF c1.fault THEN c1
        ELSE [c1 EXCEPT !.eip = WClamp(WAdd(W(c1.eip), d))]

(***************************************************************************)
(* internals.py: ADD/SUB                                                   *)
(***************************************************************************)
\* MAXVALS[off]
MAXVALS(off) == WSub(WPow256(off), W(1))

\* A slip in the two's complement: MAXVALS[off] - b, without the + 1.
addsub_OnesComplement(a, b, off, sub) ==
    LET tmp == WAdd(a, IF ~sub THEN b ELSE WSub(MAXVALS(off), b))
    IN  WAnd(tmp, MAXVALS(off))

\* tmp = a + (b if not sub else MAXVALS[off] + 1 - b); tmp &= MAXVALS[off]
addsub(a, b, off, sub) ==
    LET tmp == WAdd(a, IF ~sub THEN b ELSE WSub(WAdd(MAXVALS(off), W(1)), b))
    IN  WAnd(tmp, MAXVALS(off))

_VM__addsub_al_imm(c, off, sub) ==
    LET imm == to_int(Get(c, c.eip, off), FALSE)
        c1 == Advance(Touch(c, c.eip, off), off)
        a == to_int(reg_get(c1.reg, EAX, off), FALSE)
    IN  SetReg(c1, EAX, to_bytes(addsub(a, imm, off, sub), off))

_VM__addsub_rm_imm(c, off, imm_sz, sub) ==
    LET old_eip == c.eip
        d == process_ModRM(c, off, off)
        imm == to_int(Get(d.c, d.c.eip, imm_sz), FALSE)
        c1 == Advance(Touch(d.c, d.c.eip, imm_sz), off)
        a == to_int(rm_get(c1, d.RM), FALSE)
    IN  IF (~sub /\ d.R.num # 0) \/ (sub /\ d.R.num # 5)
        THEN Result("false", IF c1.fault THEN c1 ELSE [c1 EXCEPT !.eip = old_eip])
        ELSE Result("true",
                    rm_set(rm_touch(c1, d.RM), d.RM, to_bytes(addsub(a, imm, off, sub), off)))

_VM__addsub_rm_r(c, off, sub) ==
    LET d == process_ModRM(c, off, off)
        a == to_int(rm_get(d.c, d.RM), FALSE)
        b == to_int(reg_get(d.c.reg, d.R.num, off), FALSE)
    IN  rm_set(rm_touch(d.c, d.RM), d.RM, to_bytes(addsub(a, b, off, sub), off))

_VM__addsub_r_rm(c, off, sub) ==
    LET d == process_ModRM(c, off, off)
        a == to_int(rm_get(d.c, d.RM), FALSE)
        b == to_int(reg_get(d.c.reg, d.R.num, off), FALSE)
    IN  SetReg(rm_touch(d.c, d.RM), d.R.num, to_bytes(addsub(a, b, off, sub), off))

(***************************************************************************)
(* kernel.py: the syscall ABI.  The host's part in a call is the record h: *)
(*   rdata     the bytes the host has ready for a read                     *)
(*   oserror   the host call fails with OSError                            *)
(*   nofileno  the stream has no fileno() (the fallback stream path)       *)
(*   exists    the path named exists (os.path.exists)                      *)
(***************************************************************************)
\* registers = [3, 1, 2, 6, 7]  # ebx, ecx, edx, esi, edi
registers == <<EBX, ECX, EDX, ESI, EDI>>

\* [self.reg.get(reg, 4) for reg, type in zip(registers, types)]: one value
\* per letter of types, each read as the register's unsigned value.
__args(c, types) ==
    [i \in 1..Len(types) |-> to_int(reg_get(c.reg, registers[i], 4), FALSE)]

\* self.reg.eax = value
__return(c, value) ==
    IF c.fault THEN c
    ELSE [c EXCEPT !.reg = reg_set(@, EAX, to_bytes(WAnd(W(value), MAXVALS(4)), 4))]

\* self.descriptors[fd] of a table index; fd is a Python integer.
HasFd(c, fd) == fd[1] = 0 /\ fd[2] < Len(c.descriptors)

Fd(c, fd) == c.descriptors[fd[2] + 1]

\* An exit that halts without recording the code it was given.
sys_exit_DropsCode(c) ==
    LET c1 == [c EXCEPT !.program_break = code_segment_end]
    IN  IF Fd(c1, W(2)) = "None" THEN [c1 EXCEPT !.fault = TRUE]
        ELSE [c1 EXCEPT !.RETCODE = W(0), !.running = FALSE]

sys_exit(c) ==
    LET code == __args(c, <<"s">>)[1]
        c1 == [c EXCEPT !.program_break = code_segment_end]
    IN  IF Fd(c1, W(2)) = "None" THEN [c1 EXCEPT !.fault = TRUE]
        ELSE [c1 EXCEPT !.RETCODE = code, !.running = FALSE]

\* return self.sys_exit()
sys_exit_group(c) == sys_exit(c)

sys_read(c, h) ==
    LET a == __args(c, <<"u", "u", "u">>)
        fd == a[1]
        data_addr == WClamp(a[2])
        count == WClamp(a[3])
        n == IF Len(h.rdata) < count THEN Len(h.rdata) ELSE count
        data == IF h.nofileno THEN SubSeq(h.rdata, 1, n) \o <<10>>
                ELSE SubSeq(h.rdata, 1, n)
    IN  CASE ~HasFd(c, fd) -> __return(c, -1)
          [] HasFd(c, fd) /\ Fd(c, fd) = "None" -> [c EXCEPT !.fault = TRUE]
          [] OTHER ->
                IF h.oserror /\ h.nofileno THEN [c EXCEPT !.fault = TRUE]
                ELSE IF h.oserror THEN __return(c, -1)
                ELSE __return(Store(c, data_addr, data), Len(data))

sys_write(c, h) ==
    LET a == __args(c, <<"u", "u", "u">>)
        fd == a[1]
        buf_addr == WClamp(a[2])
        count == WClamp(a[3])
        c1 == Touch(c, buf_addr, count)
        buf == Get(c, buf_addr, count)
    IN  IF c1.fault \/ ~HasFd(c, fd) \/ Fd(c, fd) = "None" \/ h.oserror
        THEN [c1 EXCEPT !.fault = TRUE]
        ELSE __return([c1 EXCEPT !.out = Append(@, <<fd[2], buf>>)], count)

\* struct_iovec.size, the size of struct.Struct('<II')
iovec_size == 8

\* The for loop of sys_writev with x records still to visit: the record at
\* iov_addr is unpacked; a zero iov_len steps to the next record, any other
\* writes the buffer, adds iov_len to size and steps to the next record.
RECURSIVE writev_records(_, _, _, _, _, _)
writev_records(c, h, fd, iov_addr, x, size) ==
    IF c.fault \/ x = 0 THEN [c |-> c, size |-> size]
    ELSE LET c1 == Touch(c, iov_addr, iovec_size)
             iov_base == WClamp(to_int(Get(c, iov_addr, 4), FALSE))
             iov_len == WClamp(to_int(Get(c, iov_addr + 4, 4), FALSE))
             c2 == Touch(c1, iov_base, iov_len)
             buf == Get(c, iov_base, iov_len)
         IN  CASE c1.fault -> [c |-> c1, size |-> size]
               [] ~c1.fault /\ iov_len = 0 ->
                     writev_records(c1, h, fd, iov_addr + iovec_size, x - 1, size)
               [] OTHER ->
                     IF c2.fault \/ ~HasFd(c, fd) \/ Fd(c, fd) = "None" \/ h.oserror
                     THEN [c |-> [c2 EXCEPT !.fault = TRUE], size |-> size]
                     ELSE writev_records([c2 EXCEPT !.out = Append(@, <<fd[2], buf>>)],
                                         h, fd, iov_addr + iovec_size, x - 1,
                                         size + iov_len)

\* A gather write that stops after the first record.
sys_writev_FirstRecordOnly(c, h) ==
    LET a == __args(c, <<"s", "u", "s">>)
        iovcnt == IF WClamp(a[3]) > 1 THEN 1 ELSE WClamp(a[3])
        r == writev_records(c, h, a[1], WClamp(a[2]), iovcnt, 0)
    IN  __return(r.c, r.size)

sys_writev(c, h) ==
    LET a == __args(c, <<"s", "u", "s">>)
        r == writev_records(c, h, a[1], WClamp(a[2]), WClamp(a[3]), 0)
    IN  __return(r.c, r.size)

(***************************************************************************)
(* The GDT (CPU.py, not among the sources: modelled from the               *)
(* specification: a fixed-size array of segment descriptors, zeroed at     *)
(* construction, slot 0 reserved).  A slot is its present bit P, the base  *)
(* (base_1, base_2, base_3: 32 bits) and the limit (limit_1, limit_2: 20   *)
(* bits), as little-endian bytes.                                          *)
(***************************************************************************)
EmptySlot == [P |-> 0, base |-> <<0, 0, 0, 0>>, limit |-> <<0, 0, 0>>]

\* struct_user_desc.size, the size of struct.Struct('<ILIBH4B')
user_desc_size == 19

\* for selector_index, entry in enumerate(self.GDT[1:], 1): the index the
\* loop ends with, from index i on: that of the first slot that is not
\* present, or the last index when every slot is.
RECURSIVE selector_scan(_, _)
selector_scan(c, i) ==
    IF c.GDT[i].P = 0 \/ i = GdtSize - 1 THEN i ELSE selector_scan(c, i + 1)

\* A set_thread_area that writes the slot the scan ends at, present or not.
sys_set_thread_area_Overwrites(c) ==
    LET u_info_addr == WClamp(__args(c, <<"u">>)[1])
        c1 == Touch(c, u_info_addr, user_desc_size)
        selector_index == IF Get(c, u_info_addr, 4) = <<255, 255, 255, 255>> /\ GdtSize > 1
                          THEN selector_scan(c, 1) ELSE 0
        c2 == IF selector_index # 0
              THEN [c1 EXCEPT !.GDT[selector_index] =
                        [P |-> 1, base |-> Get(c, u_info_addr + 4, 4),
                         limit |-> <<0, 0, 0>>]]
              ELSE c1
    IN  IF c1.fault THEN c1
        ELSE __return(Store(c2, u_info_addr, to_bytes(W(selector_index), 4)), 0)

sys_set_thread_area(c) ==
    LET u_info_addr == WClamp(__args(c, <<"u">>)[1])
        c1 == Touch(c, u_info_addr, user_desc_size)
        entry_number == Get(c, u_info_addr, 4)
        base_addr == Get(c, u_info_addr + 4, 4)
        limit == Get(c, u_info_addr + 8, 4)
        found == selector_scan(c, 1)
        selector_index == IF entry_number = <<255, 255, 255, 255>> /\ GdtSize > 1
                          THEN found ELSE 0
        c2 == IF selector_index # 0 /\ c.GDT[selector_index].P = 0
              THEN [c1 EXCEPT !.GDT[selector_index] =
                        [P |-> 1, base |-> base_addr,
                         limit |-> <<limit[1], limit[2], limit[3] % 16>>]]
              ELSE c1
    IN  IF c1.fault THEN c1
        ELSE __return(Store(c2, u_info_addr, to_bytes(W(selector_index), 4)), 0)

\* A kernel.py integer read from a register: the values from 2^16 on lie
\* beyond every address and descriptor of the model and are read as 2^16.
Arg(c, i, types) == WClamp(__args(c, types)[i])

\* A break handler without the floor: every address becomes the break.
sys_brk_NoFloor(c) ==
    LET brk == Arg(c, 1, <<"u">>)
    IN  __return([c EXCEPT !.program_break = brk], brk)

\* A break handler that only ever reports the break.
sys_brk_KeepsBreak(c) == __return(c, c.program_break)

sys_brk(c) ==
    LET brk == Arg(c, 1, <<"u">>)
        min_brk == code_segment_end
        oldbrk == c.program_break
    IN  CASE brk < min_brk -> __return(c, c.program_break)
          [] brk >= min_brk /\ oldbrk = brk -> __return(c, c.program_break)
          [] OTHER -> __return([c EXCEPT !.program_break = brk], brk)

\* MAP_FLAGS(flags), MAP_PROT(prot): an enum.Flag of a value with a bit that
\* is no member raises ValueError.
MAP_ANONYMOUS == 32

IsFlagOf(v, bits) == v >= 0 /\ v < Limb /\ BitAnd(v, bits) = v

\* self.mem.memset(addr, 0, length), which hands back addr (Memory is not
\* among the sources: modelled from the specification).
memset0(c, addr, length) == Store(c, addr, [i \in 1..length |-> 0])

sys_mmap_pgoff(c) ==
    LET types == <<"u", "u", "s", "s", "s">>
        length == Arg(c, 2, types)
        prot == Arg(c, 3, types)
        flags == Arg(c, 4, types)
        old_brk == c.program_break
        c1 == memset0(c, old_brk, length)
    IN  CASE ~IsFlagOf(flags, 51) \/ ~IsFlagOf(prot, 7) -> [c EXCEPT !.fault = TRUE]
          [] IsFlagOf(flags, 51) /\ IsFlagOf(prot, 7) /\ BitAnd(flags, MAP_ANONYMOUS) # 0 ->
                IF c1.fault THEN c1
                ELSE __return([c1 EXCEPT !.program_break = old_brk + length], old_brk)
          [] OTHER -> __return(c, -1)

\* An unmap that moves the break to addr whatever the range's end.
sys_munmap_AnyRange(c) ==
    __return([c EXCEPT !.program_break = Arg(c, 1, <<"u", "u">>)], 0)

sys_munmap(c) ==
    LET addr == Arg(c, 1, <<"u", "u">>)
        length == Arg(c, 2, <<"u", "u">>)
    IN  IF addr + length = c.program_break
        THEN __return([c EXCEPT !.program_break = addr], 0)
        ELSE __return(c, 0)

\* __read_string: the bytes from address up to the first zero byte.
RECURSIVE read_string_len(_, _)
read_string_len(c, address) ==
    IF ~InMem(address, 1) THEN -1
    ELSE IF c.mem[address] = 0 THEN 0
    ELSE LET rest == read_string_len(c, address + 1)
         IN  IF rest < 0 THEN -1 ELSE rest + 1

__read_string(c, address) ==
    LET len == read_string_len(c, address)
    IN  IF len < 0 THEN <<>> ELSE mem_get(c.mem, address, len)

\* pathname.startswith('/etc')
StartsWithEtc(pathname) == Len(pathname) >= 4 /\ SubSeq(pathname, 1, 4) = <<47, 101, 116, 99>>

O_WRONLY == 1
O_RDWR == 2
O_TRUNC == 512
O_LARGEFILE == 32768
O_RDONLY == 0

\* A scan that settles on slot 0 without looking whether it is free.
free_descriptor_FirstSlot(c) == 0

\* The slot open_file takes: the first free one, else a new one at the end.
free_descriptor(c) ==
    IF \E d \in 1..Len(c.descriptors) : c.descriptors[d] = "None"
    THEN (CHOOSE d \in 1..Len(c.descriptors) :
            /\ c.descriptors[d] = "None"
            /\ \A e \in 1..(d - 1) : c.descriptors[e] # "None") - 1
    ELSE -1

\* The host's open(name, mode): FileNotFoundError for 'r' and 'r+' on a path
\* that does not exist and for the empty path, FileExistsError for 'x' on one
\* that exists, IsADirectoryError for the directory /etc, any OSError when
\* the host refuses; 'w' and 'x' create the path.
host_open_fails(c, name, mode, h) ==
    \/ h.oserror
    \/ name = <<>>
    \/ name = <<47, 101, 116, 99>>
    \/ mode \in {"r", "r+"} /\ name \notin c.fs
    \/ mode = "x" /\ name \in c.fs

open_file(c, name, mode, h) ==
    LET descriptor == free_descriptor(c)
        c1 == IF mode \in {"w", "x"} THEN [c EXCEPT !.fs = @ \cup {name}] ELSE c
    IN  CASE host_open_fails(c, name, mode, h) -> [c EXCEPT !.fault = TRUE]
          [] ~host_open_fails(c, name, mode, h) /\ descriptor = -1 ->
                __return([c1 EXCEPT !.descriptors = Append(@, "file")],
                         Len(c.descriptors))
          [] OTHER ->
                __return([c1 EXCEPT !.descriptors[descriptor + 1] = "file"], descriptor)

sys_open(c, h) ==
    LET types == <<"u", "s", "u">>
        pathname_addr == Arg(c, 1, types)
        flags == Arg(c, 2, types)
        pathname == __read_string(c, pathname_addr)
        has(bit) == flags < Limb /\ BitAnd(flags, bit) # 0
    IN  CASE read_string_len(c, pathname_addr) < 0 -> [c EXCEPT !.fault = TRUE]
          [] OTHER ->
                IF has(O_RDONLY)
                THEN IF pathname \notin c.fs THEN __return(c, -1)
                     ELSE open_file(c, pathname, "r", h)
                ELSE IF has(O_WRONLY)
                THEN IF has(O_TRUNC) THEN open_file(c, pathname, "w", h)
                     ELSE open_file(c, pathname, "x", h)
                ELSE IF has(O_RDWR) THEN open_file(c, pathname, "r+", h)
                ELSE IF has(O_LARGEFILE)
                THEN IF StartsWithEtc(pathname) THEN __return(c, -1)
                     ELSE open_file(c, pathname, "r", h)
                ELSE __return(c, -1)

\* A close that does not look whether the slot is free already.
sys_close_NoFreeCheck(c) ==
    LET fd == __args(c, <<"u">>)[1]
    IN  CASE ~HasFd(c, fd) -> __return(c, -1)
          [] OTHER -> __return([c EXCEPT !.descriptors[fd[2] + 1] = "None"], 0)

sys_close(c) ==
    LET fd == __args(c, <<"u">>)[1]
    IN  CASE ~HasFd(c, fd) -> __return(c, -1)
          [] HasFd(c, fd) /\ Fd(c, fd) = "None" -> __return(c, -1)
          [] OTHER -> __return([c EXCEPT !.descriptors[fd[2] + 1] = "None"], 0)

\* self.__return(-1) after the arguments are read and logged
sys_modify_ldt(c) == __return(c, -1)

\* self.__return(-1)
sys_sigaction(c) == __return(c, -1)

\* self.__return(0)
sys_rt_gprocmask(c) == __return(c, 0)

\* A tgkill that delivers the signal to the guest.
sys_tgkill_Delivers(c) == [__return(c, 0) EXCEPT !.running = FALSE]

\* self.__return(0) after the arguments are read and logged
sys_tgkill(c) == __return(c, 0)

\* sys_llseek: the offset handed to os.lseek is offset & 0xFFFFFFFF.  The
\* descriptor is indexed and asked for its fileno() inside the try, which
\* catches OSError only: IndexError and the AttributeError of None leave the
\* handler, the UnsupportedOperation of a stream without fileno() is an
\* OSError.  The host seeks from the start (whence 0), or from the position
\* or the end it has, Len(h.rdata), and refuses any other whence.  The
\* calls of the model keep offset_high below 2^15.
sys_llseek(c, h) ==
    LET a == __args(c, <<"u", "u", "u", "u", "u">>)
        fd == a[1]
        offset_high == a[2]
        offset_low == a[3]
        result_addr == WClamp(a[4])
        whence == WClamp(a[5])
        offset == <<offset_high[2] * Limb + offset_low[1], offset_low[2]>>
        sought == WAnd(offset, MAXVALS(4))
        pos == IF whence = 0 THEN sought ELSE WAdd(W(Len(h.rdata)), sought)
        c1 == [c EXCEPT !.seek = pos]
    IN  CASE ~HasFd(c, fd) -> [c EXCEPT !.fault = TRUE]
          [] HasFd(c, fd) /\ Fd(c, fd) = "None" -> [c EXCEPT !.fault = TRUE]
          [] OTHER ->
                IF h.nofileno \/ h.oserror \/ whence > 2 THEN __return(c, -1)
                ELSE IF ~CanToBytes(pos, 4) THEN [c1 EXCEPT !.fault = TRUE]
                ELSE __return(Store(c1, result_addr, to_bytes(pos, 4)), 0)

\* sys_readlink: os.readlink raises FileNotFoundError when the path does not
\* exist, another OSError (not a link, no permission) when the host
\* refuses, and hands back the target h.rdata otherwise; only the first is
\* caught.  mem.set(buf_addr, ret) stores the whole target.
sys_readlink(c, h) ==
    LET types == <<"u", "u", "u">>
        pathname_addr == Arg(c, 1, types)
        buf_addr == Arg(c, 2, types)
    IN  CASE read_string_len(c, pathname_addr) < 0 -> [c EXCEPT !.fault = TRUE]
          [] OTHER ->
                IF ~h.exists THEN __return(c, -1)
                ELSE IF h.oserror THEN [c EXCEPT !.fault = TRUE]
                ELSE __return(Store(c, buf_addr, h.rdata), 0)

(***************************************************************************)
(* __init__.py: the interrupt handler and the mnemonic dispatchers.  Each  *)
(* dispatcher is called with EIP just past the opcode byte opc.            *)
(***************************************************************************)
\* A table that sends every system-call number it does not know to exit.
interrupt_UnknownExits(c, code, h) ==
    LET syscall == to_int(reg_get(c.reg, EAX, 4), FALSE)
    IN  CASE code # 128 -> [c EXCEPT !.fault = TRUE]
          [] code = 128 /\ syscall = W(3) -> sys_read(c, h)
          [] code = 128 /\ syscall = W(4) -> sys_write(c, h)
          [] OTHER -> sys_exit(c)

interrupt(c, code, h) ==
    LET syscall == to_int(reg_get(c.reg, EAX, 4), FALSE)
    IN  CASE code # 128 -> [c EXCEPT !.fault = TRUE]
          [] code = 128 /\ syscall = W(1) -> sys_exit(c)
          [] code = 128 /\ syscall = W(3) -> sys_read(c, h)
          [] code = 128 /\ syscall = W(4) -> sys_write(c, h)
          [] OTHER -> [c EXCEPT !.fault = TRUE]

\* (1 << sz * 8) - 1, and to_int(d) & that mask as the new EIP
Masked(x, sz) == WClamp(WAnd(x, MAXVALS(sz)))

_mov(c, opc, sz) ==
    CASE opc \in 176..183 -> Result("true", _VM__mov_r_imm(c, 1, opc))
      [] opc \in 184..191 -> Result("true", _VM__mov_r_imm(c, sz, opc))
      [] opc = 198 -> _VM__mov_rm_imm(c, 1)
      [] opc = 199 -> _VM__mov_rm_imm(c, sz)
      [] opc = 136 -> Result("true", _VM__mov_rm_r(c, 1))
      [] opc = 137 -> Result("true", _VM__mov_rm_r(c, sz))
      [] opc = 138 -> Result("true", _VM__mov_r_rm(c, 1))
      [] opc = 139 -> Result("true", _VM__mov_r_rm(c, sz))
      [] opc = 140 -> Raise(c)
      [] opc = 142 -> Raise(c)
      [] OTHER -> Result("false", c)

_jmp(c, opc, sz) ==
    CASE opc = 235 -> Result("true", _VM__jmp_rel(c, 1))
      [] opc = 233 -> Result("true", _VM__jmp_rel(c, sz))
      [] opc = 255 ->
            LET m == process_ModRM(c, sz, sz)
                c1 == Touch(m.c, m.c.eip, sz)
                d == to_int(Get(m.c, m.c.eip, sz), FALSE)
                c2 == Touch(c1, WClamp(d), sz)
                dd == to_int(Get(m.c, WClamp(d), sz), FALSE)
            IN  CASE m.R.num = 4 ->
                        Result("true", IF c1.fault THEN c1
                                       ELSE [c1 EXCEPT !.eip = Masked(d, sz)])
                  [] m.R.num = 5 ->
                        Result("true", IF c2.fault THEN c2
                                       ELSE [c2 EXCEPT !.eip = Masked(dd, sz)])
                  [] OTHER -> Result("false", m.c)
      [] opc = 234 -> Raise(c)
      [] OTHER -> Result("false", c)

\* An INT imm8 that raises the interrupt without stepping over the vector.
_int_NoAdvance(c, opc, h) ==
    CASE opc = 204 -> Result("true", c)
      [] opc = 205 ->
            LET imm == Get(c, c.eip, 1)[1]
                c1 == Touch(c, c.eip, 1)
            IN  Result("true", IF c1.fault THEN c1 ELSE interrupt(c1, imm, h))
      [] OTHER -> Result("false", c)

_int(c, opc, h) ==
    CASE opc = 204 -> Result("true", c)
      [] opc = 205 ->
            LET imm == Get(c, c.eip, 1)[1]
                c1 == Advance(Touch(c, c.eip, 1), 1)
            IN  Result("true", IF c1.fault THEN c1 ELSE interrupt(c1, imm, h))
      [] OTHER -> Result("false", c)

\* A slip in PUSH r: the register number masked with 0b11 instead of 0b111.
_push_NarrowMask(c, opc, sz) ==
    CASE opc = 255 ->
            LET m == process_ModRM(c, sz, sz)
            IN  IF m.R.num # 6 THEN Result("false", m.c)
                ELSE Result("true", stack_push(rm_touch(m.c, m.RM), rm_get(m.c, m.RM)))
      [] opc \in 80..87 -> Result("true", stack_push(c, reg_get(c.reg, opc % 4, sz)))
      [] opc = 106 ->
            Result("true", stack_push(Advance(Touch(c, c.eip, 1), 1), Get(c, c.eip, 1)))
      [] opc = 104 ->
            Result("true", stack_push(Advance(Touch(c, c.eip, sz), sz), Get(c, c.eip, sz)))
      [] OTHER -> Result("false", c)

_push(c, opc, sz) ==
    CASE opc = 255 ->
            LET m == process_ModRM(c, sz, sz)
            IN  IF m.R.num # 6 THEN Result("false", m.c)
                ELSE Result("true", stack_push(rm_touch(m.c, m.RM), rm_get(m.c, m.RM)))
      [] opc \in 80..87 -> Result("true", stack_push(c, reg_get(c.reg, opc % 8, sz)))
      [] opc = 106 ->
            Result("true", stack_push(Advance(Touch(c, c.eip, 1), 1), Get(c, c.eip, 1)))
      [] opc = 104 ->
            Result("true", stack_push(Advance(Touch(c, c.eip, sz), sz), Get(c, c.eip, sz)))
      [] OTHER -> Result("false", c)

\* self.reg.set(loc, data) with any loc: an index outside the file raises.
reg_set_any(c, loc, data) ==
    IF loc \in 0..7 THEN SetReg(c, loc, data) ELSE [c EXCEPT !.fault = TRUE]

\* A POP rm that raises the stack pointer before it looks at the sub-field.
_pop_RaisesFirst(c, opc, sz) ==
    CASE opc = 143 ->
            LET m == process_ModRM(c, sz, sz)
                data == stack_pop_data(m.c, sz)
                esp == WAdd(to_int(reg_get(m.c.reg, ESP, 4), FALSE), W(sz))
                raised == SetReg(m.c, ESP, to_bytes(esp, 4))
            IN  IF m.R.num # 0 THEN Result("false", raised)
                ELSE Result("true", reg_set_any(stack_pop(m.c, sz), m.RM.loc, data))
      [] opc \in 88..95 ->
            Result("true", SetReg(stack_pop(c, sz), opc % 8, stack_pop_data(c, sz)))
      [] OTHER -> Result("false", c)

_pop(c, opc, sz) ==
    CASE opc = 143 ->
            LET m == process_ModRM(c, sz, sz)
                data == stack_pop_data(m.c, sz)
            IN  IF m.R.num # 0 THEN Result("false", m.c)
                ELSE Result("true", reg_set_any(stack_pop(m.c, sz), m.RM.loc, data))
      [] opc \in 88..95 ->
            Result("true", SetReg(stack_pop(c, sz), opc % 8, stack_pop_data(c, sz)))
      [] OTHER -> Result("false", c)

\* self.eip.to_bytes(sz, CPU.byteorder, signed=True)
EipBytes(c, sz) == to_bytes(WAnd(W(c.eip), MAXVALS(sz)), sz)

CanEipBytes(c, sz) == sz = 4 \/ (c.eip >= -32768 /\ c.eip < 32768)

push_eip(c, sz) ==
    IF ~CanEipBytes(c, sz) THEN [c EXCEPT !.fault = TRUE] ELSE stack_push(c, EipBytes(c, sz))

_call(c, opc, sz) ==
    CASE opc = 232 ->
            LET dest == WAnd(to_int(Get(c, c.eip, sz), TRUE), MAXVALS(sz))
                c1 == Advance(Touch(c, c.eip, sz), sz)
                tmpEIP == WClamp(WAdd(W(c1.eip), dest))
                c2 == push_eip(c1, sz)
            IN  Result("true", IF c2.fault THEN c2 ELSE [c2 EXCEPT !.eip = tmpEIP])
      [] opc = 255 ->
            LET m == process_ModRM(c, sz, sz)
                tmpEIP == Masked(to_int(rm_get(m.c, m.RM), TRUE), sz)
                c2 == push_eip(rm_touch(m.c, m.RM), sz)
            IN  CASE m.R.num = 2 ->
                        Result("true", IF c2.fault THEN c2 ELSE [c2 EXCEPT !.eip = tmpEIP])
                  [] m.R.num = 3 -> Raise(m.c)
                  [] OTHER -> Result("false", m.c)
      [] opc = 154 -> Raise(c)
      [] OTHER -> Result("false", c)

_ret(c, opc, sz) ==
    LET target == Masked(to_int(stack_pop_data(c, sz), TRUE), sz)
        c1 == stack_pop(c, sz)
        c2 == IF c1.fault THEN c1 ELSE [c1 EXCEPT !.eip = target]
        nbytes_to_pop == WClamp(to_int(Get(c2, c2.eip, sz), FALSE))
        c3 == Advance(Touch(c2, c2.eip, sz), sz)
    IN  CASE opc = 195 -> Result("true", c2)
          [] opc = 194 -> Result("true", stack_pop(c3, nbytes_to_pop))
          [] opc = 203 -> Raise(c)
          [] opc = 202 -> Raise(c)
          [] OTHER -> Result("false", c)

\* The dispatcher's __add_al_imm(off), __add_rm_imm(off), __add_rm_r(off) and
\* __add_r_rm(off) are the add/sub primitives of internals.py with sub=False
\* and, for rm,imm, an immediate as wide as the operand.
_add(c, opc, sz) ==
    CASE opc = 4 -> Result("true", _VM__addsub_al_imm(c, 1, FALSE))
      [] opc = 5 -> Result("true", _VM__addsub_al_imm(c, sz, FALSE))
      [] opc = 128 -> _VM__addsub_rm_imm(c, 1, 1, FALSE)
      [] opc = 129 -> _VM__addsub_rm_imm(c, sz, sz, FALSE)
      [] opc = 131 -> Raise(c)
      [] opc = 0 -> Result("true", _VM__addsub_rm_r(c, 1, FALSE))
      [] opc = 1 -> Result("true", _VM__addsub_rm_r(c, sz, FALSE))
      [] opc = 2 -> Result("true", _VM__addsub_r_rm(c, 1, FALSE))
      [] opc = 3 -> Result("true", _VM__addsub_r_rm(c, sz, FALSE))
      [] OTHER -> Result("false", c)

(***************************************************************************)
(* The machine after construction and load.  VM.__init__ seeds the         *)
(* descriptor table and sets running; the loader (not among the sources)   *)
(* leaves the image at address 0, code_segment_end and the break at its    *)
(* end, EIP at the entry point and the stack pointer at the top of memory. *)
(***************************************************************************)
\* An opcode no dispatcher takes (hlt): the image is padded with it.
Hlt == 244

Image(bytes) ==
    [a \in 0..(MemSize - 1) |->
        IF a < Len(bytes) THEN bytes[a + 1] ELSE IF a < ImageLen THEN Hlt ELSE 0]

Zero4 == <<0, 0, 0, 0>>

\* Register contents the runs start from: the guest may have loaded any.
RegVals == {Zero4, <<1, 0, 0, 0>>, <<255, 255, 255, 255>>, <<128, 255, 0, 128>>}

Regs(a, b) ==
    [i \in 0..7 |->
        CASE i = EAX -> a
          [] i = ECX -> b
          [] i = EBX -> to_bytes(W(ImageLen), 4)
          [] i = ESP -> to_bytes(W(MemSize), 4)
          [] OTHER -> Zero4]

Imm(v, sz) == SubSeq(v, 1, sz)

ImmVals == {<<1, 0, 0, 0>>, <<255, 255, 255, 255>>, <<0, 0, 0, 128>>}

\* mov eax, 1; mov ebx, 42; int 0x80 in 32-bit code.
ExitProgram == <<184, 1, 0, 0, 0, 187, 42, 0, 0, 0, 205, 128>>

\* The guest programs of the runs, for operand size sz.
Programs(sz) ==
    \* PUSH r; POP r
    {<<80 + i, 88 + j>> : i \in {EAX, ECX, ESP}, j \in {EAX, ECX, ESP}}
    \* the group opcodes 0xFF, 0x8F, 0xC6, 0xC7, 0x80, 0x81 with their sub-fields
    \cup {<<255, m>> : m \in {240, 209, 225, 192, 51}}
    \cup {<<255, 27>>, <<143, 193>>, <<143, 201>>, <<143, 3>>}
    \cup {<<198, m, 5>> : m \in {193, 201, 3}}
    \cup {<<199, m>> \o Imm(v, sz) : m \in {193, 201}, v \in ImmVals}
    \cup {<<128, m, b>> : m \in {193, 233, 3}, b \in {1, 255}}
    \cup {<<129, m>> \o Imm(v, sz) : m \in {193, 233}, v \in ImmVals}
    \* MOV
    \cup {<<176 + r, 127>> : r \in {0, 5}}
    \cup {<<184 + r>> \o Imm(v, sz) : r \in {EAX, ESP}, v \in ImmVals}
    \cup {<<o, m>> : o \in {136, 137, 138, 139}, m \in {200, 11}}
    \cup {<<140, 192>>, <<142, 192>>}
    \* JMP, INT
    \cup {<<235, 2, Hlt, Hlt, 204>>, <<235, 254>>, <<233>> \o Imm(<<1, 0, 0, 0>>, sz)}
    \cup {<<234>>, <<204, 205, 128>>, <<205, 128>>, <<205, 3>>}
    \* PUSH imm, CALL, RET
    \cup {<<106, 7, 88>>}
    \cup {<<104>> \o Imm(v, sz) \o <<89>> : v \in ImmVals}
    \cup {<<232>> \o Imm(<<1, 0, 0, 0>>, sz) \o <<Hlt, 195>>, <<154>>, <<195>>, <<203>>}
    \cup {<<194>>, <<202>>}
    \* ADD
    \cup {<<4, b>> : b \in {1, 255}}
    \cup {<<5>> \o Imm(v, sz) : v \in ImmVals}
    \cup {<<o, m>> : o \in {0, 1, 2, 3}, m \in {200, 11}}
    \cup {<<131, 193, 1>>}
    \* JMP rel8 out of memory, forwards and backwards
    \cup {<<235, 127>>, <<235, 128>>}
    \* JMP and CALL rel16/rel32 backwards, onto their own last byte
    \cup {<<o>> \o Imm(<<255, 255, 255, 255>>, sz) : o \in {233, 232}}
    \* push eax; pop [ebx] and push eax; pop [1]
    \cup {<<80, 143, 3>>, <<80, 143, 5, 1, 0, 0, 0>>}
    \* mov eax, 1; mov ebx, 42; int 0x80
    \cup {ExitProgram}

\* What the host may do in a call.
Hosts ==
    [rdata : {<<>>, <<104, 105>>}, oserror : BOOLEAN, nofileno : BOOLEAN,
     exists : BOOLEAN]

InitKernel ==
    /\ running = TRUE
    /\ descriptors = <<"stdin", "stdout", "stderr">>
    /\ code_segment_end = ImageLen
    /\ program_break = ImageLen
    /\ RETCODE = <<>>
    /\ fs = {}
    /\ out = <<>>
    /\ GDT = [i \in 0..(GdtSize - 1) |-> EmptySlot]
    /\ seek = W(0)
    /\ accesses = <<>>

Init ==
    /\ current_mode \in {0, 1}
    /\ mem \in {Image(p) : p \in Programs(sizes(current_mode))}
    /\ eip = 0
    /\ reg \in {Regs(a, b) : a \in RegVals, b \in {Zero4, <<1, 0, 0, 0>>}}
    /\ InitKernel
    /\ pc = "fetch"
    /\ op = 0
    /\ entry = Self
    /\ ret = "none"
    /\ call = <<"none">>
    /\ steps = 0
    /\ hist = <<>>

(***************************************************************************)
(* fetchLoop.py (not among the sources: modelled from the specification,   *)
(* section 4.3).  run() fetches the byte at EIP while running is set;      *)
(* execute_opcode steps EIP past it and offers it to the dispatchers in    *)
(* order; the first to return true ends the cycle, none is a decode        *)
(* failure, an exception ends the run.                                     *)
(***************************************************************************)
Commit(c) ==
    /\ eip' = c.eip
    /\ reg' = c.reg
    /\ mem' = c.mem
    /\ running' = c.running
    /\ descriptors' = c.descriptors
    /\ program_break' = c.program_break
    /\ RETCODE' = c.RETCODE
    /\ fs' = c.fs
    /\ out' = c.out
    /\ GDT' = c.GDT
    /\ seek' = c.seek
    /\ accesses' = c.log

machine ==
    <<eip, reg, mem, running, descriptors, program_break, RETCODE, fs, out, GDT,
      seek>>

Fetch ==
    /\ pc = "fetch"
    /\ running
    /\ steps < MaxSteps
    /\ IF InMem(eip, 1)
       THEN /\ op' = mem[eip]
            /\ eip' = eip + 1
            /\ pc' = "_mov"
            /\ steps' = steps + 1
            /\ hist' = Append(hist, [op |-> mem[eip], at |-> eip, reg |-> reg,
                                     by |-> "none"])
       ELSE /\ pc' = "fatal"
            /\ UNCHANGED <<op, eip, steps, hist>>
    /\ ret' = "none"
    /\ UNCHANGED <<reg, mem, running, descriptors, program_break, RETCODE, fs, out, GDT,
                   seek, current_mode, code_segment_end, entry, call, accesses>>

Stop ==
    /\ pc = "fetch"
    /\ ~running
    /\ pc' = "halted"
    /\ UNCHANGED <<machine, current_mode, code_segment_end, op, entry, ret, call,
                   steps, hist, accesses>>

\* The dispatcher `name` is offered the opcode and hands back r.
Offer(name, next, r) ==
    /\ pc = name
    /\ entry' = Self
    /\ call' = <<name, op>>
    /\ ret' = r.ret
    /\ Commit(r.c)
    /\ pc' = CASE r.ret = "true" -> "fetch"
               [] r.ret = "false" -> next
               [] OTHER -> "fatal"
    /\ hist' = IF r.ret = "true" THEN [hist EXCEPT ![Len(hist)].by = name] ELSE hist
    /\ UNCHANGED <<current_mode, code_segment_end, op, steps>>

sz == sizes(current_mode)

Call_mov == Offer("_mov", "_jmp", _mov(Self, op, sz))

Call_jmp == Offer("_jmp", "_int", _jmp(Self, op, sz))

Call_int == \E h \in Hosts : Offer("_int", "_push", _int(Self, op, h))

Call_push == Offer("_push", "_pop", _push(Self, op, sz))

Call_pop == Offer("_pop", "_call", _pop(Self, op, sz))

Call_call == Offer("_call", "_ret", _call(Self, op, sz))

Call_ret == Offer("_ret", "_add", _ret(Self, op, sz))

Call_add == Offer("_add", "undecodable", _add(Self, op, sz))

Next ==
    \/ Fetch
    \/ Stop
    \/ Call_mov
    \/ Call_jmp
    \/ Call_int
    \/ Call_push
    \/ Call_pop
    \/ Call_call
    \/ Call_ret
    \/ Call_add

Spec == Init /\ [][Next]_vars

\* The runs of the exit program and of a few programs around it (a bare
\* int 0x80, a trap before it, loads of EAX, jumps), in 32-bit code.
LivePrograms ==
    {ExitProgram, <<205, 128>>, <<204, 205, 128>>, <<235, 2, Hlt, Hlt, 204>>,
     <<235, 254>>}
    \cup {<<184>> \o v \o <<205, 128>> : v \in ImmVals}

InitLive ==
    /\ current_mode = 0
    /\ mem \in {Image(p) : p \in LivePrograms}
    /\ eip = 0
    /\ reg \in {Regs(a, b) : a \in RegVals, b \in {Zero4, <<1, 0, 0, 0>>}}
    /\ InitKernel
    /\ pc = "fetch"
    /\ op = 0
    /\ entry = Self
    /\ ret = "none"
    /\ call = <<"none">>
    /\ steps = 0
    /\ hist = <<>>

\* run() keeps fetching and executing while the running flag is set.
SpecLive == InitLive /\ [][Next]_vars /\ WF_vars(Next)

(***************************************************************************)
(* The primitives of internals.py called on their own: EIP is just past an *)
(* opcode, the operand bytes (ModRM, immediate) follow in memory, and one  *)
(* primitive is applied with the operand width, the immediate width and    *)
(* the sub flag its signature takes.                                       *)
(***************************************************************************)
\* ModRM bytes: register forms (cl, al/cl with reg 0, 1 and 5) and [ebx].
ModRMs == {193, 200, 233, 192, 3, 43, 11}

ImageWithData(bytes, data) ==
    [a \in 0..(MemSize - 1) |->
        IF a >= ImageLen /\ a < ImageLen + 4 THEN data[a - ImageLen + 1]
        ELSE Image(bytes)[a]]

InitInternals ==
    /\ current_mode = 0
    /\ mem \in {ImageWithData(<<m>> \o v, d) : m \in ModRMs, v \in ImmVals, d \in RegVals}
    /\ eip = 0
    /\ reg \in {Regs(a, b) : a \in RegVals, b \in {Zero4, <<255, 255, 255, 255>>}}
    /\ InitKernel
    /\ pc = "internals"
    /\ op = 0
    /\ entry = Self
    /\ ret = "none"
    /\ call = <<"none">>
    /\ steps = 0
    /\ hist = <<>>

Widths == {1, 2, 4}

\* The primitive `name` is applied with arguments args and hands back r.
Apply(name, args, r) ==
    /\ pc = "internals"
    /\ entry' = Self
    /\ call' = <<name>> \o args
    /\ ret' = r.ret
    /\ Commit(r.c)
    /\ pc' = "applied"
    /\ UNCHANGED <<current_mode, code_segment_end, op, steps, hist>>

Apply_addsub_al_imm ==
    \E off \in Widths, sub \in BOOLEAN :
        Apply("_VM__addsub_al_imm", <<off, off, sub>>,
              Result("true", _VM__addsub_al_imm(Self, off, sub)))

Apply_addsub_rm_imm ==
    \E off \in Widths, imm_sz \in Widths, sub \in BOOLEAN :
        /\ imm_sz <= off
        /\ Apply("_VM__addsub_rm_imm", <<off, imm_sz, sub>>,
                 _VM__addsub_rm_imm(Self, off, imm_sz, sub))

Apply_addsub_rm_r ==
    \E off \in Widths, sub \in BOOLEAN :
        Apply("_VM__addsub_rm_r", <<off, off, sub>>,
              Result("true", _VM__addsub_rm_r(Self, off, sub)))

Apply_addsub_r_rm ==
    \E off \in Widths, sub \in BOOLEAN :
        Apply("_VM__addsub_r_rm", <<off, off, sub>>,
              Result("true", _VM__addsub_r_rm(Self, off, sub)))

NextInternals ==
    \/ Apply_addsub_al_imm
    \/ Apply_addsub_rm_imm
    \/ Apply_addsub_rm_r
    \/ Apply_addsub_r_rm

SpecInternals == InitInternals /\ [][NextInternals]_vars

(***************************************************************************)
(* The system calls of kernel.py, issued by the guest one after another.   *)
(* For each call the guest loads EAX with the number of the call and the   *)
(* argument registers EBX, ECX, EDX and ESI with its arguments (zero for   *)
(* those the call does not take) and raises the interrupt; the handler     *)
(* runs on the machine so loaded.  SpecMemory issues the calls that move   *)
(* the program break, SpecFiles the calls on the descriptor table.         *)
(***************************************************************************)
MaxLen == 2
MaxFds == 4
MaxOut == 1

\* The numbers of the calls: the default of each handler's code parameter.
code_exit == 1
code_read == 3
code_write == 4
code_exit_group == 252
code_open == 5
code_close == 6
code_brk == 45
code_munmap == 91
code_mmap_pgoff == 192

Word(v) == to_bytes(W(v), 4)

Guest(code, b, c, d, s) ==
    [Self EXCEPT !.reg = [reg EXCEPT ![EAX] = Word(code), ![EBX] = Word(b),
                                     ![ECX] = Word(c), ![EDX] = Word(d),
                                     ![ESI] = Word(s)]]

Syscall(name, c0, c) ==
    /\ pc = "kernel"
    /\ running
    /\ entry' = c0
    /\ call' = <<name>>
    /\ ret' = IF c.fault THEN "raise" ELSE "true"
    /\ Commit(c)
    /\ pc' = IF c.fault THEN "fatal" ELSE "kernel"
    /\ UNCHANGED <<current_mode, code_segment_end, op, steps, hist>>

InitSyscalls(image) ==
    /\ current_mode = 0
    /\ mem = image
    /\ eip = 0
    /\ reg = Regs(Zero4, Zero4)
    /\ InitKernel
    /\ pc = "kernel"
    /\ op = 0
    /\ entry = Self
    /\ ret = "none"
    /\ call = <<"none">>
    /\ steps = 0
    /\ hist = <<>>

\* Break addresses the guest asks for: around the end of the image and
\* around the end of memory.
BreakArgs ==
    {0, 1, ImageLen - 1, ImageLen, ImageLen + 1, ImageLen + 2, MemSize, MemSize + 1}

\* mmap flags: none, MAP_PRIVATE | MAP_ANONYMOUS, and a bit that is no flag.
MapFlags == {0, 34, 64}

InitMemory == InitSyscalls(Image(<<>>))

Sys_brk ==
    \E b \in BreakArgs :
        \E c0 \in {Guest(code_brk, b, 0, 0, 0)} :
            \E c1 \in {sys_brk(c0)} : Syscall("sys_brk", c0, c1)

Sys_mmap_pgoff ==
    \E l \in 0..MaxLen, f \in MapFlags :
        \E c0 \in {Guest(code_mmap_pgoff, 0, l, 3, f)} :
            \E c1 \in {sys_mmap_pgoff(c0)} : Syscall("sys_mmap_pgoff", c0, c1)

Sys_munmap ==
    \E a \in BreakArgs, l \in 0..MaxLen :
        \E c0 \in {Guest(code_munmap, a, l, 0, 0)} :
            \E c1 \in {sys_munmap(c0)} : Syscall("sys_munmap", c0, c1)

\* The exit codes the guest leaves in EBX: 0, 42 and -1.
ExitCodes == {Word(0), Word(42), <<255, 255, 255, 255>>}

Sys_exit ==
    \E e \in ExitCodes :
        \E c0 \in {[Guest(code_exit, 0, 0, 0, 0) EXCEPT !.reg[EBX] = e]} :
            \E c1 \in {sys_exit(c0)} : Syscall("sys_exit", c0, c1)

NextMemory ==
    \/ Sys_brk
    \/ Sys_mmap_pgoff
    \/ Sys_munmap
    \/ Sys_exit

SpecMemory == InitMemory /\ [][NextMemory]_vars

\* The guest's path strings: the empty string at address 0, "a" at address 2
\* and "/etc" at address 4.
PathImage == Image(<<0, 0, 97, 0, 47, 101, 116, 99, 0>>)

PathArgs == {0, 2, 4}

\* open flags: O_RDONLY, O_WRONLY, O_WRONLY | O_TRUNC, O_RDWR, O_LARGEFILE.
OpenFlags == {O_RDONLY, O_WRONLY, O_WRONLY + O_TRUNC, O_RDWR, O_LARGEFILE}

InitFiles == InitSyscalls(PathImage)

\* The hosts of an open: one that opens what its file system allows, one
\* that refuses.
OpenHosts == {x \in Hosts : x.rdata = <<>> /\ ~x.nofileno /\ ~x.exists}

Sys_open ==
    \E b \in PathArgs, f \in OpenFlags, h \in OpenHosts :
        \E c0 \in {Guest(code_open, b, f, 0, 0)} :
            \E c1 \in {sys_open(c0, h)} :
                /\ Len(c1.descriptors) <= MaxFds
                /\ Syscall("sys_open", c0, c1)

Sys_close ==
    \E b \in 0..MaxFds :
        \E c0 \in {Guest(code_close, b, 0, 0, 0)} :
            \E c1 \in {sys_close(c0)} : Syscall("sys_close", c0, c1)

\* read(fd, MemSize - 2, 1) from standard input or from an fd outside the
\* table: the host has two bytes ready, standard input has a fileno() or is
\* a stream without one, and the host call succeeds or fails.
ReadHosts == {x \in Hosts : x.rdata # <<>> /\ ~x.exists}

Sys_read ==
    \E b \in {0, MaxFds}, h \in ReadHosts :
        \E c0 \in {Guest(code_read, b, MemSize - 2, 1, 0)} :
            \E c1 \in {sys_read(c0, h)} : Syscall("sys_read", c0, c1)

\* write(fd, address of "a", 1) to standard output or to an fd outside the
\* table.
Sys_write ==
    \E b \in {1, MaxFds}, h \in OpenHosts :
        \E c0 \in {Guest(code_write, b, 2, 1, 0)} :
            \E c1 \in {sys_write(c0, h)} :
                /\ Len(c1.out) <= MaxOut
                /\ Syscall("sys_write", c0, c1)

Sys_exit_group ==
    \E e \in {0, 42} :
        \E c0 \in {Guest(code_exit_group, e, 0, 0, 0)} :
            \E c1 \in {sys_exit_group(c0)} : Syscall("sys_exit_group", c0, c1)

NextFiles ==
    \/ Sys_open
    \/ Sys_close
    \/ Sys_read
    \/ Sys_write
    \/ Sys_exit
    \/ Sys_exit_group

SpecFiles == InitFiles /\ [][NextFiles]_vars

(***************************************************************************)
(* SpecGather: gather writes.  The guest's memory holds three iovec        *)
(* records: at 0 {base 16, len 2}, at 8 {base 4, len 0}, at 16 {base 8,    *)
(* len 1}; the buffers they name are bytes of the records themselves.      *)
(***************************************************************************)
MaxWrites == 2

code_writev == 146

IovImage ==
    Image(<<16, 0, 0, 0, 2, 0, 0, 0,  4, 0, 0, 0, 0, 0, 0, 0,  8, 0, 0, 0, 1, 0, 0, 0>>)

IovArgs == {0, iovec_size, 2 * iovec_size}

\* iovcnt as the guest leaves it in EDX: 0..3, and -1.
IovCounts == {Word(k) : k \in 0..3} \cup {<<255, 255, 255, 255>>}

InitGather == InitSyscalls(IovImage)

Sys_writev ==
    \E b \in {1, MaxFds}, a \in IovArgs, k \in IovCounts, h \in OpenHosts :
        \E c0 \in {[Guest(code_writev, b, a, 0, 0) EXCEPT !.reg[EDX] = k]} :
            \E c1 \in {sys_writev(c0, h)} :
                /\ Len(c1.out) <= MaxWrites
                /\ Syscall("sys_writev", c0, c1)

NextGather ==
    \/ Sys_writev
    \/ Sys_close
    \/ Sys_exit

SpecGather == InitGather /\ [][NextGather]_vars

(***************************************************************************)
(* SpecThread: thread-local-storage set-up.  The guest's memory holds a    *)
(* user_desc at 0 {entry_number -1, base 0xFFFFFFFF, limit 0x1000} whose   *)
(* base field is the entry_number of a second one at 4 {entry_number -1,   *)
(* base 0x1000, limit 0xFFFFFFFF}.  Between calls the guest may store -1   *)
(* into an entry_number field again.                                       *)
(***************************************************************************)
code_set_thread_area == 243

ThreadImage ==
    Image(<<255, 255, 255, 255,  255, 255, 255, 255,  0, 16, 0, 0,
            255, 255, 255, 255>>)

\* Addresses of a user_desc the guest passes; the last leaves no room for one.
UInfoArgs == {0, 4, MemSize - user_desc_size + 1}

InitThread == InitSyscalls(ThreadImage)

Sys_set_thread_area ==
    \E a \in UInfoArgs :
        \E c0 \in {Guest(code_set_thread_area, a, 0, 0, 0)} :
            \E c1 \in {sys_set_thread_area(c0)} :
                Syscall("sys_set_thread_area", c0, c1)

\* mov dword [a], -1 in the guest's code, between two calls.
Guest_asks_free_slot ==
    \E a \in {0, 4} :
        /\ pc = "kernel"
        /\ running
        /\ mem' = mem_set(mem, a, <<255, 255, 255, 255>>)
        /\ entry' = Self
        /\ call' = <<"guest_store">>
        /\ ret' = "none"
        /\ UNCHANGED <<eip, reg, current_mode, running, descriptors, program_break,
                       code_segment_end, RETCODE, fs, out, GDT, seek, pc, op, steps,
                       hist, accesses>>

code_modify_ldt == 123

code_sigaction == 174

code_rt_gprocmask == 175

code_tgkill == 270

\* The values the guest leaves in EBX, ECX and EDX for the calls below.
StubArgs == {Word(0), <<255, 255, 255, 255>>}

Sys_modify_ldt ==
    \E x \in StubArgs, y \in StubArgs :
        \E c0 \in {[Guest(code_modify_ldt, 0, 0, 0, 0) EXCEPT !.reg[EBX] = x, !.reg[ECX] = y]} :
            \E c1 \in {sys_modify_ldt(c0)} : Syscall("sys_modify_ldt", c0, c1)

Sys_sigaction ==
    \E x \in StubArgs, y \in StubArgs :
        \E c0 \in {[Guest(code_sigaction, 0, 0, 0, 0) EXCEPT !.reg[EBX] = x, !.reg[ECX] = y]} :
            \E c1 \in {sys_sigaction(c0)} : Syscall("sys_sigaction", c0, c1)

Sys_rt_gprocmask ==
    \E x \in StubArgs, y \in StubArgs :
        \E c0 \in {[Guest(code_rt_gprocmask, 0, 0, 0, 0) EXCEPT !.reg[EBX] = x, !.reg[ECX] = y]} :
            \E c1 \in {sys_rt_gprocmask(c0)} : Syscall("sys_rt_gprocmask", c0, c1)

Sys_tgkill ==
    \E x \in StubArgs, y \in StubArgs :
        \E c0 \in {[Guest(code_tgkill, 0, 0, 0, 0) EXCEPT !.reg[EBX] = x, !.reg[EDX] = y]} :
            \E c1 \in {sys_tgkill(c0)} : Syscall("sys_tgkill", c0, c1)

NextThread ==
    \/ Sys_set_thread_area
    \/ Guest_asks_free_slot
    \/ Sys_modify_ldt
    \/ Sys_sigaction
    \/ Sys_rt_gprocmask
    \/ Sys_tgkill

SpecThread == InitThread /\ [][NextThread]_vars

(***************************************************************************)
(* The guest asks for links and seeks: readlink of the path "a" into a     *)
(* buffer, llseek of standard input or of a descriptor outside the table,  *)
(* close and exit.                                                         *)
(***************************************************************************)
code_readlink == 85

code_llseek == 140

InitLinks == InitSyscalls(PathImage)

\* The hosts of a readlink: the link exists or not, the host refuses or
\* not, the target is empty or "hi".
LinkHosts == {x \in Hosts : ~x.nofileno}

\* readlink("a", buf, bufsiz), the buffer inside memory or at its last byte.
Sys_readlink ==
    \E buf \in {12, MemSize - 1}, bufsiz \in {1, 4}, h \in LinkHosts :
        \E c0 \in {Guest(code_readlink, 2, buf, bufsiz, 0)} :
            \E c1 \in {sys_readlink(c0, h)} : Syscall("sys_readlink", c0, c1)

\* The hosts of a seek: at position 2, failing or not, the stream with a
\* fileno() or without.
SeekHosts == {x \in Hosts : x.rdata # <<>> /\ ~x.exists}

\* llseek(fd, offset_high, offset_low, 16, whence).
Sys_llseek ==
    \E b \in {0, MaxFds}, hi \in {0, 1}, lo \in {5}, w \in {0, 1, 3}, h \in SeekHosts :
        \E c0 \in {[Guest(code_llseek, b, hi, lo, 16) EXCEPT !.reg[EDI] = Word(w)]} :
            \E c1 \in {sys_llseek(c0, h)} : Syscall("sys_llseek", c0, c1)

NextLinks ==
    \/ Sys_readlink
    \/ Sys_llseek
    \/ Sys_close
    \/ Sys_exit

SpecLinks == InitLinks /\ [][NextLinks]_vars

(***************************************************************************)
(* Properties.                                                             *)
(***************************************************************************)

\* C1: rollback.  Whenever a dispatcher has just returned false, EIP equals
\* the EIP it was called with, also for the group opcodes whose ModRM byte
\* was read before the sub-field was found not to match.
C1_Rollback == ret = "false" => eip = entry.eip

\* C2: an accepted ADD/SUB rm,imm leaves EIP advanced, past the ModRM
\* decode, by the width imm_sz of the immediate it read, whatever the
\* operand width off is.
C2_ImmAdvance ==
    (call[1] = "_VM__addsub_rm_imm" /\ ret = "true")
        => eip = process_ModRM(entry, call[2], call[2]).c.eip + call[3]

\* The operands of the add/sub primitive last applied, read off the state it
\* was called in: a is the accumulator or rm operand, b the immediate or the
\* r operand; dst is what the destination holds now.
AddSubCalls ==
    {"_VM__addsub_al_imm", "_VM__addsub_rm_imm", "_VM__addsub_rm_r", "_VM__addsub_r_rm"}

Decoded == process_ModRM(entry, call[2], call[2])

OperandA ==
    IF call[1] = "_VM__addsub_al_imm" THEN to_int(reg_get(entry.reg, EAX, call[2]), FALSE)
    ELSE to_int(rm_get(entry, Decoded.RM), FALSE)

OperandB ==
    CASE call[1] = "_VM__addsub_al_imm" -> to_int(Get(entry, entry.eip, call[2]), FALSE)
      [] call[1] = "_VM__addsub_rm_imm" ->
            to_int(Get(entry, Decoded.c.eip, call[3]), FALSE)
      [] OTHER -> to_int(reg_get(entry.reg, Decoded.R.num, call[2]), FALSE)

Destination ==
    CASE call[1] = "_VM__addsub_al_imm" -> reg_get(reg, EAX, call[2])
      [] call[1] = "_VM__addsub_r_rm" -> reg_get(reg, Decoded.R.num, call[2])
      [] OTHER -> rm_get(Self, Decoded.RM)

\* r = (a + b) mod 2^(8w): r is below 2^(8w) and a + b = r or r + 2^(8w).
IsSumMod(r, a, b, w) ==
    /\ Len(r) = w
    /\ \E k \in {0, 1} : WAdd(to_int(r, FALSE), WScale(WPow256(w), k)) = WAdd(a, b)

\* r = (a - b) mod 2^(8w): r is below 2^(8w) and r + b = a or a + 2^(8w).
IsDiffMod(r, a, b, w) ==
    /\ Len(r) = w
    /\ \E k \in {0, 1} : WAdd(to_int(r, FALSE), b) = WAdd(a, WScale(WPow256(w), k))

\* C3: in each of the four operand forms and for each width w, ADD leaves
\* (a + b) mod 2^(8w) and SUB leaves (a - b) mod 2^(8w) in the destination.
C3_AddSubModular ==
    (call[1] \in AddSubCalls /\ ret = "true") =>
        IF call[4] THEN IsDiffMod(Destination, OperandA, OperandB, call[2])
        ELSE IsSumMod(Destination, OperandA, OperandB, call[2])

\* 0xFFFFFFFF + 1 = 0 was computed by ADD ecx, imm32.
C3_Witness ==
    /\ call = <<"_VM__addsub_rm_imm", 4, 4, FALSE>>
    /\ ret = "true"
    /\ OperandA = <<65535, 65535>>
    /\ OperandB = <<0, 1>>
    /\ reg[ECX] = Zero4

\* PUSH r was taken by _push and the POP r right behind it by _pop: the
\* state now is the state the POP left.
n == Len(hist)

PushPopDone ==
    /\ pc = "fetch"
    /\ n >= 2
    /\ hist[n].by = "_pop" /\ hist[n].op \in 88..95
    /\ hist[n - 1].by = "_push" /\ hist[n - 1].op \in 80..87
    /\ hist[n].at = hist[n - 1].at + 1

Pushed == hist[n - 1].op % 8

Popped == hist[n].op % 8

\* C4 as claimed: the popped register holds the value v pushed, and the
\* stack pointer is back at its value before the push.
C4_PushPopRoundTrip ==
    PushPopDone =>
        /\ reg_get(reg, Popped, sz) = reg_get(hist[n - 1].reg, Pushed, sz)
        /\ reg[ESP] = hist[n - 1].reg[ESP]

\* C4 amended: the popped register holds the value v pushed; the stack
\* pointer is back at its value before the push unless the POP loads the
\* stack pointer itself, which then holds v.
C4_PushPopRoundTripAmended ==
    PushPopDone =>
        /\ reg_get(reg, Popped, sz) = reg_get(hist[n - 1].reg, Pushed, sz)
        /\ Popped # ESP => reg[ESP] = hist[n - 1].reg[ESP]

\* PUSH eax; POP ecx in 32-bit mode with eax = 0x8000FF80 has completed.
C4_Witness ==
    /\ PushPopDone
    /\ Pushed = EAX /\ Popped = ECX /\ sz = 4
    /\ reg[ECX] = <<128, 255, 0, 128>>

\* The accumulator after a call, as the unsigned and as the signed integer.
Acc == to_int(reg[EAX], FALSE)

AccSigned == to_int(reg[EAX], TRUE)

\* The first argument of the call that has just run, as an address.
Arg1 == WClamp(to_int(entry.reg[EBX], FALSE))

\* C5: in every state that brk, mmap_pgoff, munmap and exit calls with any
\* arguments lead to, program_break >= code_segment_end.
C5_BreakAboveCode == program_break >= code_segment_end

\* C6: brk(0) and brk(addr) with addr < code_segment_end leave program_break
\* as it was and return it in the accumulator.
C6_BrkBelowCodeIsNoOp ==
    (call = <<"sys_brk">> /\ Arg1 < code_segment_end)
        => (program_break = entry.program_break /\ Acc = W(entry.program_break))

C6_Witness ==
    /\ call = <<"sys_brk">>
    /\ Arg1 = 0
    /\ entry.program_break > code_segment_end
    /\ program_break = entry.program_break
    /\ Acc = W(program_break)

\* C7: brk(addr) with addr >= code_segment_end sets program_break to addr
\* and returns addr in the accumulator; an addr above the break raises it.
C7_BrkSetsBreak ==
    (call = <<"sys_brk">> /\ Arg1 >= code_segment_end)
        => /\ program_break = Arg1
           /\ reg[EAX] = entry.reg[EBX]
           /\ Arg1 > entry.program_break => program_break > entry.program_break

C7_Witness ==
    /\ call = <<"sys_brk">>
    /\ entry.program_break = code_segment_end
    /\ Arg1 = code_segment_end + 2
    /\ program_break = code_segment_end + 2
    /\ Acc = W(code_segment_end + 2)

\* C8: in every state that open and close calls with any descriptor
\* arguments lead to, the slots 0, 1 and 2 hold the standard streams and
\* none of them is free.
C8_StandardStreams == SubSeq(descriptors, 1, 3) = <<"stdin", "stdout", "stderr">>

\* The lowest free slot from 3 on of a table, its length when none is free.
LowestFreeFrom3(d) ==
    IF \E i \in 3..(Len(d) - 1) : d[i + 1] = "None"
    THEN CHOOSE i \in 3..(Len(d) - 1) :
            d[i + 1] = "None" /\ \A j \in 3..(i - 1) : d[j + 1] # "None"
    ELSE Len(d)

\* C9: an open that succeeds returns the lowest free slot from 3 on, a new
\* slot at the end of the table only when none is free, and never a
\* descriptor below 3.
C9_OpenLowestFreeFrom3 ==
    (call = <<"sys_open">> /\ ret = "true" /\ AccSigned # W(-1))
        => (Acc = W(LowestFreeFrom3(entry.descriptors)) /\ ~WLess(Acc, W(3)))

\* C10: close(fd) of an fd outside the table or of a free slot returns -1
\* and leaves the table as it was; any other close frees that slot, leaves
\* the other slots and the length of the table as they were and returns 0.
C10_Close ==
    call = <<"sys_close">> =>
        IF Arg1 >= Len(entry.descriptors) \/ entry.descriptors[Arg1 + 1] = "None"
        THEN descriptors = entry.descriptors /\ AccSigned = W(-1)
        ELSE /\ descriptors = [entry.descriptors EXCEPT ![Arg1 + 1] = "None"]
             /\ Acc = W(0)

\* A second close of descriptor 3: the slot exists and is free already.
C10_Witness ==
    /\ call = <<"sys_close">>
    /\ Arg1 = 3
    /\ Len(entry.descriptors) = 4
    /\ entry.descriptors[4] = "None"
    /\ descriptors = entry.descriptors
    /\ AccSigned = W(-1)

\* The path and the flags of the open that has just run.
OpenPath == __read_string(entry, Arg1)

OpenFlagsArg == WClamp(to_int(entry.reg[ECX], FALSE))

\* C11: an open whose access mode is read-only (the access bits of flags
\* are O_RDONLY = 0) returns -1 when the path does not exist, and takes a
\* descriptor and returns it when the path exists.
C11_OpenReadOnly ==
    (call = <<"sys_open">> /\ OpenFlagsArg % 4 = O_RDONLY)
        => IF OpenPath \notin entry.fs
           THEN ret = "true" /\ AccSigned = W(-1)
           ELSE ret = "true" => (AccSigned # W(-1) /\ descriptors # entry.descriptors)

\* The call that has just run was bound to fail: a read or a write on an fd
\* outside the table or on a freed slot, an open without creation of a path
\* that does not exist, an exclusive creation of a path that exists.
SyscallFailure ==
    \/ /\ call[1] \in {"sys_read", "sys_write"}
       /\ (Arg1 >= Len(entry.descriptors) \/ entry.descriptors[Arg1 + 1] = "None")
    \/ /\ call = <<"sys_open">>
       /\ OpenFlagsArg \in {O_RDONLY, O_RDWR, O_LARGEFILE}
       /\ OpenPath \notin entry.fs
    \/ /\ call = <<"sys_open">>
       /\ OpenFlagsArg = O_WRONLY
       /\ OpenPath \in entry.fs

\* C12: every failure of a call ends with -1 in the accumulator and the VM
\* still running; no exception of the host leaves the handler.
C12_FailureReturnsMinusOne ==
    SyscallFailure => (ret = "true" /\ AccSigned = W(-1) /\ running)

\* C13: halted is terminal.  Once the running flag is cleared, or no
\* dispatcher took the opcode, no opcode is fetched and EIP, the registers,
\* memory, the descriptors, program_break and the exit code stay as they
\* are; and the loop stops only after the INT that issued the exit has
\* completed, EIP past its vector.
C13_HaltedTerminal ==
    /\ [][(~running \/ pc = "undecodable") => (UNCHANGED machine /\ hist' = hist)]_vars
    /\ [](pc = "halted" =>
            /\ ~running
            /\ call = <<"_int", 205>>
            /\ ret = "true"
            /\ eip = entry.eip + 1)

C13_Witness == pc = "halted" /\ ~running /\ RETCODE # <<>> /\ Len(hist) > 0

\* The program mov eax, 1; mov ebx, 42; int 0x80 is loaded and the run is
\* at its entry point.
ExitLoaded ==
    /\ pc = "fetch"
    /\ steps = 0
    /\ eip = 0
    /\ current_mode = 0
    /\ mem = Image(ExitProgram)

\* C14: the program mov eax, 1; mov ebx, 42; int 0x80 started at its entry
\* point eventually halts with exit code 42, and whenever a run halts the
\* exit code is the value of EBX at the exit call.
C14_ExitProgramHalts ==
    /\ ExitLoaded ~> (pc = "halted" /\ RETCODE = W(42))
    /\ [](pc = "halted" => RETCODE = to_int(entry.reg[EBX], FALSE))

C14_Witness == pc = "halted" /\ RETCODE = W(42) /\ mem = Image(ExitProgram)

\* C15: exit, and exit_group through it, set program_break to
\* code_segment_end, record the exit code and clear the running flag,
\* whatever the state they are called in.
C15_ExitHalts ==
    call[1] \in {"sys_exit", "sys_exit_group"}
        => /\ program_break = code_segment_end
           /\ RETCODE = to_int(entry.reg[EBX], FALSE)
           /\ ~running


(***************************************************************************)
(* C16: whenever the loop is about to fetch an opcode (the run has not     *)
(* stopped), EIP is an address of memory: 0 <= EIP < memory size.  No      *)
(* instruction a dispatcher accepted leaves it negative or past the end.   *)
(***************************************************************************)
C16_EipInRange ==
    (pc = "fetch" /\ running) => (eip >= 0 /\ eip < MemSize)


\* The vector of the INT imm8 just executed and the system-call number in
\* the accumulator when it was.
Vector == entry.mem[entry.eip]

SyscallNumber == to_int(entry.reg[EAX], FALSE)

valid_syscalls == {W(1), W(3), W(4)}

FatalInt ==
    /\ call = <<"_int", 205>>
    /\ InMem(entry.eip, 1)
    /\ (Vector # 128 \/ SyscallNumber \notin valid_syscalls)

(***************************************************************************)
(* C17: INT imm8 with a vector other than 0x80, or with vector 0x80 and an *)
(* accumulator that is no key of the system-call table, ends the run with  *)
(* an error and runs no handler: registers, memory, the descriptor table,  *)
(* the break, the exit code, the running flag and the output are those the *)
(* instruction found.                                                      *)
(***************************************************************************)
C17_InvalidInterruptFatal ==
    FatalInt
        => /\ ret = "raise"
           /\ pc = "fatal"
           /\ reg = entry.reg
           /\ mem = entry.mem
           /\ descriptors = entry.descriptors
           /\ program_break = entry.program_break
           /\ RETCODE = entry.RETCODE
           /\ running = entry.running
           /\ out = entry.out

C17_Witness ==
    /\ FatalInt
    /\ Vector = 128
    /\ SyscallNumber = W(0)
    /\ pc = "fatal"


\* The handlers other than exit that the runs call.
OtherHandlers ==
    {"sys_read", "sys_write", "sys_open", "sys_close", "sys_brk",
     "sys_mmap_pgoff", "sys_munmap"}

\* EBX, ECX, EDX, ESI, EDI, ESP and EBP hold what they held at entry.
FramePreserved == \A i \in 1..7 : reg[i] = entry.reg[i]

(***************************************************************************)
(* C18: a system call other than exit leaves every general-purpose         *)
(* register but the accumulator as it found it, and writes the accumulator *)
(* once: the handler comes back through __return, its only write of EAX.   *)
(***************************************************************************)
C18_OnlyAccumulatorWritten ==
    call[1] \in OtherHandlers => (ret = "true" /\ FramePreserved)


\* The length and the flags of the mmap_pgoff or munmap call that has just run.
Arg2 == WClamp(to_int(entry.reg[ECX], FALSE))

MmapFlags == WClamp(to_int(entry.reg[ESI], FALSE))

\* The request fits the memory that is there.
MmapFits == entry.program_break >= 0 /\ entry.program_break + Arg2 <= MemSize

(***************************************************************************)
(* C19: mmap_pgoff with MAP_ANONYMOUS among the flags returns the old      *)
(* break, raises program_break by length and leaves zeros in [old break,   *)
(* old break + length); with any flags without MAP_ANONYMOUS it returns -1 *)
(* and changes neither program_break nor memory.                           *)
(***************************************************************************)
C19_MmapAnonymous ==
    (call = <<"sys_mmap_pgoff">> /\ MmapFits)
        => /\ ret = "true"
           /\ IF BitAnd(MmapFlags, MAP_ANONYMOUS) # 0
              THEN /\ Acc = W(entry.program_break)
                   /\ program_break = entry.program_break + Arg2
                   /\ \A a \in entry.program_break..(program_break - 1) : mem[a] = 0
                   /\ \A a \in 0..(MemSize - 1) :
                          (a < entry.program_break \/ a >= program_break)
                              => mem[a] = entry.mem[a]
              ELSE /\ AccSigned = W(-1)
                   /\ program_break = entry.program_break
                   /\ mem = entry.mem


\* munmap has just returned.
Unmapped == call = <<"sys_munmap">>

\* This step is munmap(p, length) straight after an anonymous mmap_pgoff of
\* the same length that returned p.
UnmapOfLastMap ==
    /\ call = <<"sys_mmap_pgoff">>
    /\ ret = "true"
    /\ BitAnd(MmapFlags, MAP_ANONYMOUS) # 0
    /\ call' = <<"sys_munmap">>
    /\ entry'.reg[EBX] = reg[EAX]
    /\ entry'.reg[ECX] = entry.reg[ECX]

(***************************************************************************)
(* C20: munmap(addr, length) returns 0 in every case; program_break        *)
(* becomes addr when addr + length is the current break and is unchanged   *)
(* otherwise.  An anonymous mmap_pgoff of length bytes that returned p,    *)
(* followed by munmap(p, length), leaves the break where it was before the *)
(* mmap_pgoff.                                                             *)
(***************************************************************************)
C20_MunmapRestoresBreak ==
    /\ [](Unmapped
            => /\ ret = "true"
               /\ Acc = W(0)
               /\ program_break = IF Arg1 + Arg2 = entry.program_break
                                  THEN Arg1
                                  ELSE entry.program_break)
    /\ [][UnmapOfLastMap => program_break' = entry.program_break]_vars

C20_Witness ==
    /\ Unmapped
    /\ Arg2 = MaxLen
    /\ entry.program_break = ImageLen + MaxLen
    /\ program_break = ImageLen


\* The call that has just run: its descriptor, and record i (from 0) of the
\* array its second argument names, as the guest's memory held it at entry.
WritevFd == WClamp(to_int(entry.reg[EBX], FALSE))

IovCnt == WClamp(to_int(entry.reg[EDX], FALSE))

IovBase(i) == WClamp(to_int(Get(entry, Arg2 + iovec_size * i, 4), FALSE))

IovLen(i) == WClamp(to_int(Get(entry, Arg2 + iovec_size * i + 4, 4), FALSE))

\* The writes records i, i + 1, ... below IovCnt ask for, and their bytes.
RECURSIVE Gathered(_)
Gathered(i) ==
    IF i >= IovCnt THEN <<>>
    ELSE IF IovLen(i) = 0 THEN Gathered(i + 1)
    ELSE <<(<<WritevFd, Get(entry, IovBase(i), IovLen(i))>>)>> \o Gathered(i + 1)

RECURSIVE GatheredSize(_)
GatheredSize(i) == IF i >= IovCnt THEN 0 ELSE IovLen(i) + GatheredSize(i + 1)

\* A writev on an open descriptor whose records and buffers lie in memory.
WritevServed ==
    /\ call = <<"sys_writev">>
    /\ IovCnt < Limb
    /\ WritevFd < Len(entry.descriptors)
    /\ entry.descriptors[WritevFd + 1] # "None"
    /\ \A i \in 0..(IovCnt - 1) :
          /\ InMem(Arg2 + iovec_size * i, iovec_size)
          /\ InMem(IovBase(i), IovLen(i))

(***************************************************************************)
(* C21: writev visits the iovcnt records of 8 bytes from iov_addr on in    *)
(* index order: the output grows by the buffers of the records of non-zero *)
(* length, in that order, a record of zero length adds no write and the    *)
(* next record is still visited, and the accumulator holds the sum of the  *)
(* lengths written.                                                        *)
(***************************************************************************)
C21_WritevGathers ==
    (WritevServed /\ ret = "true")
        => /\ out = entry.out \o Gathered(0)
           /\ Acc = W(GatheredSize(0))
           /\ mem = entry.mem

\* writev(1, 0, 3): two buffers written around the empty record.
C21_Witness ==
    /\ WritevServed
    /\ ret = "true"
    /\ Arg2 = 0
    /\ IovCnt = 3
    /\ out = <<(<<1, <<8, 0>>>>), (<<1, <<4>>>>)>>
    /\ Acc = W(3)


\* set_thread_area has just returned, and the user_desc it was given asked
\* for a free slot (entry_number = 0xFFFFFFFF).
AskedFreeSlot ==
    /\ call = <<"sys_set_thread_area">>
    /\ ret = "true"
    /\ Get(entry, Arg1, 4) = <<255, 255, 255, 255>>

\* The slot index the call left at u_info_addr.
ReportedSlot == WClamp(to_int(Get(Self, Arg1, 4), FALSE))

(***************************************************************************)
(* C22: a set_thread_area that asks for a free slot reports, at            *)
(* u_info_addr, the lowest index >= 1 of a slot that was not present       *)
(* before the call; that slot is present after it and holds the base and   *)
(* the limit of the user_desc; no other slot changes; the call returns 0.  *)
(***************************************************************************)
C22_ThreadAreaFreshSlot ==
    AskedFreeSlot
        => /\ Acc = W(0)
           /\ ReportedSlot \in 1..(GdtSize - 1)
           /\ entry.GDT[ReportedSlot].P = 0
           /\ \A j \in 1..(ReportedSlot - 1) : entry.GDT[j].P = 1
           /\ GDT[ReportedSlot].P = 1
           /\ GDT[ReportedSlot].base = Get(entry, Arg1 + 4, 4)
           /\ \A j \in 0..(GdtSize - 1) : j # ReportedSlot => GDT[j] = entry.GDT[j]


\* The opcode fetched last, and the sub-field (bits 3..5) of the byte after it.
LastFetch == hist[Len(hist)]

SubField == (entry.mem[LastFetch.at + 1] \div 8) % 8

\* The opcode fetched last is a far call, a far jump, a far return or a move
\* to or from a segment register.
UnimplementedFetched ==
    /\ Len(hist) > 0
    /\ \/ LastFetch.op \in {154, 234, 203, 202, 140, 142}
       \/ LastFetch.op = 255 /\ InMem(LastFetch.at + 1, 1) /\ SubField = 3

(***************************************************************************)
(* C23: a far call (0x9A, 0xFF /3), a far jump (0xEA), a far return (0xCB, *)
(* 0xCA) and a segment-register move (0x8C, 0x8E) are never accepted and   *)
(* never passed over as undecodable: once the dispatchers are done with    *)
(* one the run has aborted on the error it raised, and until then no       *)
(* register but EIP and no byte of memory, the stack included, has         *)
(* changed since the fetch.                                                *)
(***************************************************************************)
C23_UnimplementedAborts ==
    UnimplementedFetched
        => /\ pc \notin {"fetch", "halted", "undecodable"}
           /\ pc = "fatal" => ret = "raise"
           /\ reg = LastFetch.reg
           /\ mem = entry.mem


\* An accepted MOV or ADD between a register and an RM operand: rm,r
\* (0x88, 0x89, 0x00, 0x01) and r,rm (0x8A, 0x8B, 0x02, 0x03).
RMCall ==
    /\ call \in {<<d, o>> : d \in {"_mov"}, o \in 136..139}
                \cup {<<d, o>> : d \in {"_add"}, o \in 0..3}
    /\ ret = "true"

\* Its operand width, the mod field of its ModRM byte and the RM descriptor
\* the decode yields.
RMWidth == IF call[2] % 2 = 0 THEN 1 ELSE sz

Mod == entry.mem[entry.eip] \div 64

ResolvedRM == process_ModRM(entry, RMWidth, RMWidth).RM

\* The accesses of the call that are not reads of the instruction's own
\* bytes at EIP.
IsOperandAccess(e) == e.at # e.eip

OperandAccesses == SelectSeq(accesses, IsOperandAccess)

OperandAccess(kind) == [kind |-> kind, at |-> ResolvedRM.loc, n |-> RMWidth, eip |-> eip]

C25_SignedArguments ==
    /\ (call = <<"sys_exit">> /\ ret = "true")
          => RETCODE = to_int(entry.reg[EBX], TRUE)
    /\ (call = <<"sys_writev">> /\ WLess(to_int(entry.reg[EDX], TRUE), W(0)))
          => (ret = "true" /\ out = entry.out)


\* The operand of the indirect JMP that has just been accepted: the RM
\* descriptor its ModRM byte resolves to, and the value that operand holds.
JmpDecoded == process_ModRM(entry, sz, sz)

JmpOperand == to_int(rm_get(JmpDecoded.c, JmpDecoded.RM), FALSE)

(***************************************************************************)
(* C26: after an indirect JMP (0xFF) with sub-field 4, EIP is the value of *)
(* the operand the ModRM byte names, the register or the memory at the     *)
(* effective address; with sub-field 5, EIP is the value stored at the     *)
(* address held in that operand.  The bytes that follow the instruction    *)
(* are not the target.                                                     *)
(***************************************************************************)
C26_IndirectJumpTarget ==
    (call = <<"_jmp", 255>> /\ ret = "true")
        => CASE JmpDecoded.R.num = 4 -> W(eip) = JmpOperand
             [] JmpDecoded.R.num = 5 ->
                    W(eip) = to_int(Get(entry, WClamp(JmpOperand), sz), FALSE)
             [] OTHER -> FALSE


\* A relative JMP has just been accepted; the width of its immediate and
\* the immediate's bytes, which follow the opcode.
RelJmp == call \in {<<"_jmp", 235>>, <<"_jmp", 233>>} /\ ret = "true"

RelWidth == IF call[2] = 235 THEN 1 ELSE sz

RelImm == Get(entry, entry.eip, RelWidth)

\* The immediate as a signed value of its width: the unsigned value, less
\* 2^(8 * width) when the top bit is set.
RelDisplacement ==
    IF RelImm[RelWidth] >= 128
    THEN WSub(to_int(RelImm, FALSE), WPow256(RelWidth))
    ELSE to_int(RelImm, FALSE)

(***************************************************************************)
(* C27: after a relative JMP (0xEB rel8, 0xE9 rel16/32) EIP is the address *)
(* of the byte after the immediate plus the immediate read as a signed     *)
(* value of its width, and no register and no byte of memory has changed.  *)
(***************************************************************************)
C27_RelativeJump ==
    RelJmp
        => /\ eip = WClamp(WAdd(W(entry.eip + RelWidth), RelDisplacement))
           /\ reg = entry.reg
           /\ mem = entry.mem

\* jmp rel32 -1 in 32-bit code: from 5 back to 4.
C27_Witness ==
    /\ RelJmp
    /\ call[2] = 233
    /\ current_mode = 0
    /\ RelDisplacement = W(-1)
    /\ entry.eip = 1
    /\ eip = 4


\* The stack pointer now and when the last dispatcher was called.
Esp == WClamp(to_int(reg[ESP], FALSE))

EntryEsp == WClamp(to_int(entry.reg[ESP], FALSE))

\* A relative CALL has just been accepted: the address after its encoding
\* and its displacement as a signed value of the operand width.
RelCall == call = <<"_call", 232>> /\ ret = "true"

ReturnAddress == entry.eip + sz

CallDisplacement ==
    LET imm == Get(entry, entry.eip, sz)
    IN  IF imm[sz] >= 128 THEN WSub(to_int(imm, FALSE), WPow256(sz))
        ELSE to_int(imm, FALSE)

(***************************************************************************)
(* C28: a near relative CALL (0xE8) pushes the address of the byte after   *)
(* its encoding and sets EIP to that address plus the signed displacement, *)
(* negative displacements included; a RET (0xC3) sets EIP to the address   *)
(* on top of the stack and raises ESP by the operand width, so a RET on    *)
(* the stack the CALL left returns to the return address with ESP as it    *)
(* was before the CALL.                                                    *)
(***************************************************************************)
C28_CallRetPairing ==
    /\ RelCall
          => /\ Esp = EntryEsp - sz
             /\ to_int(Get(Self, Esp, sz), FALSE) = W(ReturnAddress)
             /\ eip = WClamp(WAdd(W(ReturnAddress), CallDisplacement))
    /\ (call = <<"_ret", 195>> /\ ret = "true")
          => /\ Esp = EntryEsp + sz
             /\ W(eip) = to_int(Get(entry, EntryEsp, sz), FALSE)


\* The operand of the ADD rm,imm8 (0x83) the dispatcher was offered, and the
\* immediate byte behind its ModRM bytes.
AddDecoded == process_ModRM(entry, sz, sz)

AddImm8 == to_int(Get(entry, AddDecoded.c.eip, 1), FALSE)

(***************************************************************************)
(* C29: the ADD dispatcher takes opcode 0x83.  With sub-field 0 it returns *)
(* true, the rm operand of the operand width holds its old value plus the  *)
(* 8-bit immediate modulo 2^(8w), and EIP is past the ModRM bytes and the  *)
(* one immediate byte; with another sub-field it returns false.            *)
(***************************************************************************)
C29_AddRmImm8 ==
    call = <<"_add", 131>>
        => IF AddDecoded.R.num = 0
           THEN /\ ret = "true"
                /\ eip = AddDecoded.c.eip + 1
                /\ IsSumMod(rm_get(Self, AddDecoded.RM),
                            to_int(rm_get(entry, AddDecoded.RM), FALSE), AddImm8, sz)
           ELSE ret = "false"

Arg3 == WClamp(to_int(entry.reg[EDX], FALSE))

\* A read that came back with a count of bytes in the accumulator.
ReadSucceeded == call = <<"sys_read">> /\ ret = "true" /\ AccSigned # W(-1)

(***************************************************************************)
(* C30: a successful read(fd, addr, count) returns n <= count in the       *)
(* accumulator, the n bytes lie in memory at [addr, addr + n), and no      *)
(* memory byte outside that range differs from its value at the call,      *)
(* whether the descriptor has a host fd or is read as a stream.            *)
(***************************************************************************)
C30_ReadStoresAtMostCount ==
    ReadSucceeded
        => /\ ~WLess(W(Arg3), Acc)
           /\ InMem(Arg2, WClamp(Acc))
           /\ \A a \in 0..(MemSize - 1) :
                 (a < Arg2 \/ a >= Arg2 + WClamp(Acc)) => mem[a] = entry.mem[a]

(***************************************************************************)
(* C31: a readlink whose buffer of bufsiz bytes lies in memory comes back, *)
(* every memory byte outside [buf, buf + bufsiz) is as it was at the call, *)
(* whatever the length of the target, and when it comes back with -1       *)
(* memory is unchanged.                                                    *)
(***************************************************************************)
C31_ReadlinkBounded ==
    (call = <<"sys_readlink">> /\ InMem(Arg2, Arg3))
        => /\ ret = "true"
           /\ \A a \in 0..(MemSize - 1) :
                 (a < Arg2 \/ a >= Arg2 + Arg3) => mem[a] = entry.mem[a]
           /\ AccSigned = W(-1) => mem = entry.mem

Arg4 == WClamp(to_int(entry.reg[ESI], FALSE))

Arg5 == WClamp(to_int(entry.reg[EDI], FALSE))

\* (offset_high << 32) | offset_low of the registers at the call.
SeekOffset ==
    <<Arg2 * Limb + to_int(entry.reg[EDX], FALSE)[1], to_int(entry.reg[EDX], FALSE)[2]>>

(***************************************************************************)
(* C32: an llseek that returns 0 from the start of the file (whence 0) has *)
(* left the host file at the 64-bit offset (offset_high << 32) |           *)
(* offset_low, so that calls differing in offset_high alone end at         *)
(* different positions, and has written the position to memory at          *)
(* result_addr; one that returns -1 has changed no memory byte.            *)
(***************************************************************************)
C32_SeekSixtyFourBits ==
    (call = <<"sys_llseek">> /\ ret = "true")
        => /\ (Acc = W(0) /\ Arg5 = 0)
                => /\ seek = SeekOffset
                   /\ Get(Self, Arg4, 4) = to_bytes(seek, 4)
           /\ AccSigned = W(-1) => mem = entry.mem

\* One of the four calls that only report a result.
StubCalled == call[1] \in {"sys_modify_ldt", "sys_sigaction", "sys_rt_gprocmask", "sys_tgkill"}

(***************************************************************************)
(* C34: modify_ldt and sigaction come back with -1 in the accumulator,     *)
(* rt_sigprocmask and tgkill with 0, whatever the registers hold, and      *)
(* memory, the descriptor table, the GDT, program_break and the running    *)
(* flag are as they were at the call.                                      *)
(***************************************************************************)
C34_StubsOnlyReport ==
    StubCalled
        => /\ ret = "true"
           /\ call[1] \in {"sys_modify_ldt", "sys_sigaction"} => AccSigned = W(-1)
           /\ call[1] \in {"sys_rt_gprocmask", "sys_tgkill"} => Acc = W(0)
           /\ mem = entry.mem
           /\ descriptors = entry.descriptors
           /\ GDT = entry.GDT
           /\ program_break = entry.program_break
           /\ running = entry.running

\* tgkill(-1, 0, -1) after a set_thread_area has taken a slot.
C34_Witness ==
    /\ call = <<"sys_tgkill">>
    /\ entry.reg[EBX] = <<255, 255, 255, 255>>
    /\ entry.reg[EDX] = <<255, 255, 255, 255>>
    /\ entry.GDT[1].P = 1
    /\ Acc = W(0)

C38_BreakWithinMemory == program_break <= MemSize

\* An open that came back with a descriptor, and the descriptor.
OpenSucceeded == call = <<"sys_open">> /\ ret = "true" /\ AccSigned # W(-1)

OpenedFd == WClamp(Acc)

(***************************************************************************)
(* C37: the descriptor a successful open returns names a slot that was     *)
(* free or did not exist at the call, so no open stream is replaced and    *)
(* two opens with the first descriptor still open return different         *)
(* descriptors; after the call the slot holds the stream; and no call      *)
(* leaves the descriptor table shorter than it found it.                   *)
(***************************************************************************)
C37_OpenTakesFreeSlot ==
    /\ Len(descriptors) >= Len(entry.descriptors)
    /\ OpenSucceeded
          => /\ \/ OpenedFd >= Len(entry.descriptors)
                \/ entry.descriptors[OpenedFd + 1] = "None"
             /\ OpenedFd < Len(descriptors)
             /\ descriptors[OpenedFd + 1] # "None"
             /\ \A i \in 1..Len(entry.descriptors) :
                   i # OpenedFd + 1 => descriptors[i] = entry.descriptors[i]

\* A second open while the first file is still open in slot 0: it gets the
\* new slot 3.
C37_Witness ==
    /\ OpenSucceeded
    /\ entry.descriptors = <<"file", "stdout", "stderr">>
    /\ OpenedFd = 3
    /\ descriptors = <<"file", "stdout", "stderr", "file">>

(***************************************************************************)
(* C33: a dispatcher that has returned false has left every                *)
(* general-purpose register, the stack pointer among them, and every       *)
(* memory byte, the stack's among them, as it found them.                  *)
(***************************************************************************)
C33_FalseChangesNothing == ret = "false" => (reg = entry.reg /\ mem = entry.mem)

\* _pop has read the ModRM byte of 0x8F, found another sub-field than 0 and
\* returned false.
C33_Witness ==
    /\ call = <<"_pop", 143>>
    /\ ret = "false"
    /\ eip = entry.eip + 1
    /\ process_ModRM(entry, sz, sz).R.num # 0

\* The operands of the POP rm that has just been offered to _pop.
PopDecoded == process_ModRM(entry, sz, sz)

(***************************************************************************)
(* C35: POP rm (0x8F, sub-field 0) whose operand is in memory, run with    *)
(* the value popped lying in memory, returns true, leaves the value popped *)
(* in memory at the effective address and leaves every general-purpose     *)
(* register but the stack pointer as it was.                               *)
(***************************************************************************)
C35_PopToMemory ==
    (/\ call = <<"_pop", 143>>
     /\ PopDecoded.R.num = 0
     /\ PopDecoded.RM.type
     /\ InMem(EntryEsp, sz)
     /\ InMem(PopDecoded.RM.loc, sz))
        => /\ ret = "true"
           /\ Get(Self, PopDecoded.RM.loc, sz) = stack_pop_data(entry, sz)
           /\ \A r \in 0..7 : r # ESP => reg[r] = entry.reg[r]

\* PUSH imm8 was taken by _push and the POP r right behind it by _pop.
PushImm8PopDone ==
    /\ pc = "fetch"
    /\ n >= 2
    /\ hist[n].by = "_pop" /\ hist[n].op \in 88..95 /\ hist[n].op % 8 # ESP
    /\ hist[n - 1].by = "_push" /\ hist[n - 1].op = 106
    /\ hist[n].at = hist[n - 1].at + 2

(***************************************************************************)
(* C36: a PUSH that _push has accepted, in any of its forms, has lowered   *)
(* the stack pointer by the operand size sz of the mode, and after PUSH    *)
(* imm8 and the POP r behind it the stack pointer is back at its value     *)
(* before the push.                                                        *)
(***************************************************************************)
C36_PushLowersBySize ==
    /\ (call[1] = "_push" /\ ret = "true") => W(Esp) = WSub(W(EntryEsp), W(sz))
    /\ PushImm8PopDone => reg[ESP] = hist[n - 1].reg[ESP]

=============================================================================
